---- MODULE Spec2Model ----
(***************************************************************************)
(* A model of the tariff pipeline's processing stage (src/src/process.py)  *)
(* on tables as the ingestor (src/src/ingest.py) produces them.            *)
(*                                                                         *)
(* Text is a sequence of one-character strings, so that slicing, prefix    *)
(* tests and Python's code-point comparison of str are computed, not       *)
(* assumed.  A missing value (None / NaN in the data frame) is the value   *)
(* None below.  A data frame is [cols, rows]: the set of its column names  *)
(* and the sequence of its rows; a row holds None in a column it lacks.    *)
(***************************************************************************)
EXTENDS Integers, Sequences, FiniteSets, TLC

VARIABLES
    df,          \* flag_hs: the table handed to the next call
    doc_type,    \* flag_hs: "DTR" or "NOM"
    is_export,   \* flag_hs: export-direction flagging
    year,        \* config.year
    result,      \* flag_hs: the table returned by the latest call, or NoTable
    prev,        \* flag_hs: the table returned by the call before, or NoTable
    config,      \* filters: [min_chapter, chapter_list] of the loaded configuration
    hist,        \* filters: the table at the start and after each operation
    ops,         \* filters: the operations applied, in order
    nom_df,            \* build_descriptions: the nomenclature rows
    data_map,          \* build_descriptions: id -> [pid, desc, lvl]
    full_desc_cache,   \* build_descriptions: id -> full description, None when not cached
    stack,             \* get_full_desc: the frames [curr_id, depth] of the calls in progress
    ret,               \* get_full_desc: the value the latest finished call returned
    row,               \* build_descriptions: the row the second loop is at
    full_descriptions, \* build_descriptions: the list the second loop fills
    pc,                \* build_descriptions: "start", "rows", "call", "ret", "done", "error"
    rate_type_df,      \* configuration: the rows of the country's rate_types table
    app_config,        \* configuration: the AppConfig that load returned, or NoConfig
    dtr_df,            \* configuration: the DTR table handed to filter_active_country_groups
    active_df,         \* configuration: the table the filter returned, or NoTable
    exp_config,        \* generators: [country, year, zd14_date, main_country_group, uom_dict]
    exp_dtr,           \* generators: the DTR table
    exp_nom,           \* generators: the NOM table
    output,            \* generators: [gen, raised, rows] of the generator that ran
    stage,             \* import pipeline: the step that comes next
    dtr_flagged,       \* import pipeline: the DTR table as flag_hs returned it
    fmt_arg,           \* formatting: [rate, date, year_start_int] to format
    fmt_out,           \* formatting: [fn, text] of the function applied, or NoText
    files,             \* export_csv_split: the CSV files of the output directory, by <<version, index>>
    csv_df,            \* export_csv_split: the table [cols, rows] of the call
    max_rows,          \* export_csv_split: the row budget of the call
    version,           \* export_csv_split: the version of the latest call that chose one
    start_row,         \* export_csv_split: the row the next chunk starts at
    file_idx,          \* export_csv_split: the index of the next chunk
    exported_files,    \* export_csv_split: the names written by the call, in order
    csv_pc,            \* export_csv_split: "idle" or "loop"
    calls,             \* export_csv_split: the number of calls made
    file_paths,        \* parse_xml_to_df: the batch of files
    parse_doc_type,    \* parse_xml_to_df: "DTR", "NOM" or "TXT"
    all_data           \* parse_xml_to_df: the table returned, or NoTable before the call

flagVars == <<df, doc_type, is_export, year, result, prev>>

filterVars == <<config, hist, ops>>

descVars ==
    <<nom_df, data_map, full_desc_cache, stack, ret, row, full_descriptions, pc>>

loadVars == <<rate_type_df, app_config, dtr_df, active_df>>

exportVars == <<exp_config, exp_dtr, exp_nom, output, stage, dtr_flagged>>

formatVars == <<fmt_arg, fmt_out>>

csvVars ==
    <<files, csv_df, max_rows, version, start_row, file_idx, exported_files, csv_pc, calls>>

ingestVars == <<file_paths, parse_doc_type, all_data>>

fileVars == <<csvVars, ingestVars>>

restVars == <<loadVars, exportVars, formatVars, fileVars>>

\* The variables that the steps of one part leave alone.
notLoadVars == <<flagVars, filterVars, descVars, exportVars, formatVars, fileVars>>

notExportVars == <<flagVars, filterVars, descVars, loadVars, formatVars, fileVars>>

notFormatVars == <<flagVars, filterVars, descVars, loadVars, exportVars, fileVars>>

notCsvVars == <<flagVars, filterVars, descVars, loadVars, exportVars, formatVars, ingestVars>>

notIngestVars == <<flagVars, filterVars, descVars, loadVars, exportVars, formatVars, csvVars>>

vars == <<flagVars, filterVars, descVars, restVars>>

----------------------------------------------------------------------------
(* Text *)

None == <<"NONE">>

\* Code points of the characters the model's texts are made of.
Ord(c) ==
    CASE c = "-" -> 45 [] c = "." -> 46
      [] c = "0" -> 48 [] c = "1" -> 49 [] c = "2" -> 50 [] c = "3" -> 51
      [] c = "4" -> 52 [] c = "5" -> 53 [] c = "6" -> 54 [] c = "7" -> 55
      [] c = "8" -> 56 [] c = "9" -> 57 [] c = ";" -> 59
      [] c = "A" -> 65 [] c = "B" -> 66 [] c = "M" -> 77 [] c = "N" -> 78
      [] c = "P" -> 80
      [] c = "a" -> 97 [] c = "b" -> 98 [] c = "c" -> 99 [] c = "d" -> 100
      [] c = "e" -> 101 [] c = "n" -> 110 [] c = "o" -> 111

Min(a, b) == IF a <= b THEN a ELSE b

RECURSIVE StrLtFrom(_, _, _)
\* s < t decided from position i on, the texts being equal before it: the
\* first differing character decides, a proper prefix is smaller.
StrLtFrom(s, t, i) ==
    IF i > Len(t) THEN FALSE
    ELSE IF i > Len(s) THEN TRUE
    ELSE IF s[i] = t[i] THEN StrLtFrom(s, t, i + 1)
    ELSE Ord(s[i]) < Ord(t[i])

\* Python's s < t on str.
StrLt(s, t) == StrLtFrom(s, t, 1)

StrGe(s, t) == ~StrLt(s, t)

\* s[:n]
Prefix(s, n) == SubSeq(s, 1, Min(n, Len(s)))

\* s[n:]
DropPrefix(s, n) == SubSeq(s, n + 1, Len(s))

StartsWith(s, p) == Len(s) >= Len(p) /\ SubSeq(s, 1, Len(p)) = p

\* str(x): the text itself, and 'None' for a missing value.
PyStr(x) == IF x = None THEN <<"N", "o", "n", "e">> ELSE x

----------------------------------------------------------------------------
(* Data frames *)

AllCols ==
    {"country_group", "duty_rate_type", "hs", "number", "version_number",
     "version_date", "concat_cg_drt", "valid_from", "valid_to", "validity_begin",
     "validity_end", "date_of_physical_update", "adValoremRate_percentage",
     "specificRate_ratePerUOM", "compoundRate_percentage",
     "specificRate_multiplier", "regulation", "id", "parent_id", "level_id",
     "official_description", "full_description", "alternate_unit_1",
     "alternate_unit_2"}

\* A row with every cell missing.
EmptyRow == [c \in AllCols \cup {"hs_flag"} |-> IF c = "hs_flag" THEN "" ELSE None]

NoTable == [cols |-> {}, rows |-> <<>>, none |-> TRUE]

Table(cols, rows) == [cols |-> cols, rows |-> rows, none |-> FALSE]

\* df[new] = x for every row
SetCol(rows, c, x) == [i \in 1..Len(rows) |-> [rows[i] EXCEPT ![c] = x]]

\* df[new] = df[old]
CopyCol(rows, new, old) ==
    [i \in 1..Len(rows) |-> [rows[i] EXCEPT ![new] = rows[i][old]]]

----------------------------------------------------------------------------
(* cleanse_hs, filter_by_chapter and the chapter list of the configuration *)

DigitChars == <<"0", "1", "2", "3", "4", "5", "6", "7", "8", "9">>

RECURSIVE NatStr(_)
NatStr(n) ==
    IF n < 10 THEN <<DigitChars[n + 1]>>
    ELSE NatStr(n \div 10) \o <<DigitChars[(n % 10) + 1]>>

\* str(i)
IntStr(i) == IF i < 0 THEN <<"-">> \o NatStr(-i) ELSE NatStr(i)

\* s.zfill(2): only a text of one character is padded.
Zfill2(s) == IF Len(s) < 2 THEN <<"0">> \o s ELSE s

\* A chapter list built without the zero padding.
ChapterList_unpadded(min_chapter) ==
    [k \in 1..(IF min_chapter < 100 THEN 100 - min_chapter ELSE 0) |->
        IntStr(min_chapter + k - 1)]

\* [str(i).zfill(2) for i in range(min_chapter, 100)]
ChapterList(min_chapter) ==
    [k \in 1..(IF min_chapter < 100 THEN 100 - min_chapter ELSE 0) |->
        Zfill2(IntStr(min_chapter + k - 1))]

InList(x, list) == \E k \in 1..Len(list) : list[k] = x

\* A cleansing that takes a single leading zero for the prefix.
cleanse_value_one_zero(x) ==
    IF x # None /\ StartsWith(x, <<"0">>) THEN DropPrefix(x, 2) ELSE x

\* Only the first two characters go, once.
cleanse_value(x) ==
    IF x # None /\ StartsWith(x, <<"0", "0">>) THEN DropPrefix(x, 2) ELSE x

cleanse_hs(d, col_name) ==
    IF col_name \in d.cols
    THEN Table(d.cols, [i \in 1..Len(d.rows) |->
                          [d.rows[i] EXCEPT ![col_name] = cleanse_value(d.rows[i][col_name])]])
    ELSE d

is_valid_chapter(hs, chapter_list) ==
    IF hs = None \/ Len(hs) < 2 THEN FALSE
    ELSE InList(Prefix(hs, 2), chapter_list)

filter_by_chapter(d, chapter_list) ==
    IF "hs" \notin d.cols THEN d
    ELSE IF Len(chapter_list) = 0 THEN d
    ELSE Table(d.cols,
               SelectSeq(d.rows, LAMBDA r : is_valid_chapter(r["hs"], chapter_list)))

----------------------------------------------------------------------------
(* flag_hs *)

rate_cols ==
    <<"adValoremRate_percentage", "specificRate_ratePerUOM",
      "compoundRate_percentage">>

\* The sort columns of a call, in order.
sort_cols(cols, dt, exp) ==
    IF dt = "DTR"
    THEN <<"country_group", "hs", "version_date", "valid_from", "valid_to">>
         \o SelectSeq(rate_cols, LAMBDA rc : rc \in cols)
    ELSE IF exp
    THEN <<"hs", "version_date", "valid_from", "valid_to">>
    ELSE <<"version_number", "hs", "version_date", "valid_from", "valid_to">>

\* ascending[k] for sort_cols[k].
ascending(cols, dt, exp) ==
    IF dt = "DTR"
    THEN <<TRUE, TRUE, FALSE, FALSE, TRUE>>
         \o [k \in 1..Len(SelectSeq(rate_cols, LAMBDA rc : rc \in cols)) |-> FALSE]
    ELSE IF exp
    THEN <<TRUE, FALSE, FALSE, TRUE>>
    ELSE <<TRUE, TRUE, FALSE, FALSE, TRUE>>

\* A flagging that forgets the grouping key: duplicates are sought per HS code
\* over the whole table.
key_group_forgotten(dt, exp) == <<>>

key_group(dt, exp) ==
    IF dt = "DTR" THEN <<"country_group">>
    ELSE IF exp THEN <<>> ELSE <<"version_number">>

\* Column mapping for NOM: a standard name is created from the XML name when
\* only the XML name is there.
mappings ==
    << <<"validity_begin", "valid_from">>, <<"validity_end", "valid_to">>,
       <<"date_of_physical_update", "version_date">> >>

RECURSIVE ApplyMappings(_, _)
ApplyMappings(d, k) ==
    IF k > Len(mappings) THEN d
    ELSE LET old == mappings[k][1]
             new == mappings[k][2]
         IN  IF old \in d.cols /\ new \notin d.cols
             THEN ApplyMappings(Table(d.cols \cup {new}, CopyCol(d.rows, new, old)), k + 1)
             ELSE ApplyMappings(d, k + 1)

\* A sort column the table lacks is created empty.
RECURSIVE FillMissing(_, _, _)
FillMissing(d, sc, k) ==
    IF k > Len(sc) THEN d
    ELSE IF sc[k] \notin d.cols
         THEN FillMissing(Table(d.cols \cup {sc[k]}, SetCol(d.rows, sc[k], <<>>)), sc, k + 1)
         ELSE FillMissing(d, sc, k + 1)

\* One sort key of DataFrame.sort_values: missing values go last in either
\* direction, text compares as str.
KeyLess(x, y, asc) ==
    IF x = None THEN FALSE
    ELSE IF y = None THEN TRUE
    ELSE IF asc THEN StrLt(x, y) ELSE StrLt(y, x)

RowLess(r1, r2, sc, asc) ==
    \E k \in 1..Len(sc) :
        /\ \A i \in 1..(k - 1) : r1[sc[i]] = r2[sc[i]]
        /\ KeyLess(r1[sc[k]], r2[sc[k]], asc[k])

\* DataFrame.sort_values(by = sc, ascending = asc): a stable sort, rows that
\* tie on every key keep their input order.
sort_values(rows, sc, asc) ==
    LET n    == Len(rows)
        rank == [i \in 1..n |->
                    1 + Cardinality({j \in 1..n :
                            \/ RowLess(rows[j], rows[i], sc, asc)
                            \/ j < i /\ ~RowLess(rows[i], rows[j], sc, asc)})]
    IN  [k \in 1..n |-> rows[CHOOSE i \in 1..n : rank[i] = k]]

\* DataFrame.duplicated(subset, keep = 'first')
duplicated(rows, subset) ==
    [i \in 1..Len(rows) |->
        \E j \in 1..(i - 1) : \A k \in 1..Len(subset) : rows[j][subset[k]] = rows[i][subset[k]]]

determine_flag(r, is_duplicate, config_year) ==
    IF is_duplicate THEN "03-duplicate"
    ELSE LET valid_to == PyStr(r["valid_to"])
         IN  IF Len(valid_to) >= 4
             THEN IF StrGe(Prefix(valid_to, 4), config_year)
                  THEN "01-active" ELSE "02-invalid"
             ELSE "02-invalid"

flag_hs(d, config_year, dt, exp) ==
    IF dt \notin {"DTR", "NOM"} THEN d
    ELSE LET sc     == sort_cols(d.cols, dt, exp)
             asc    == ascending(d.cols, dt, exp)
             mapped == IF dt = "NOM" THEN ApplyMappings(d, 1) ELSE d
             filled == FillMissing(mapped, sc, 1)
             sorted == sort_values(filled.rows, sc, asc)
             dup    == duplicated(sorted, key_group(dt, exp) \o <<"hs">>)
         IN  Table(filled.cols \cup {"hs_flag"},
                   [i \in 1..Len(sorted) |->
                       [sorted[i] EXCEPT !["hs_flag"] =
                           determine_flag(sorted[i], dup[i], config_year)]])

----------------------------------------------------------------------------
(* build_descriptions *)

MaxDepth == 20

SEP == <<"-", "-", "-">>

\* A sanitising that leaves the semicolons in.
replace_chars_kept(text) == IF text = None THEN <<>> ELSE text

\* Semicolons become dots; a missing text becomes the empty text.
replace_chars(text) ==
    IF text = None THEN <<>>
    ELSE [i \in 1..Len(text) |-> IF text[i] = ";" THEN "." ELSE text[i]]

\* The first loop: every row with an id is indexed under str(id); of two rows
\* with one id the later one stays.
BuildDataMap(rows) ==
    LET ids == {rows[i].id : i \in {j \in 1..Len(rows) : rows[j].id # None}}
        last(x) == CHOOSE i \in 1..Len(rows) :
                       /\ rows[i].id = x
                       /\ \A j \in 1..Len(rows) : rows[j].id = x => j <= i
    IN  [x \in ids |->
            [pid  |-> rows[last(x)].parent_id,
             desc |-> replace_chars(rows[last(x)].official_description),
             lvl  |-> PyStr(rows[last(x)].level_id)]]

TENS == <<"1", "0">>
TWENTY == <<"2", "0">>

\* A recursion that is never cut off.
DepthNeverExceeded(depth) == FALSE

\* if depth > 20
DepthExceeded(depth) == depth > MaxDepth

\* if pid and pid != curr_id
UsableParent(pid, curr_id) == pid # None /\ Len(pid) > 0 /\ pid # curr_id

\* parent_desc + "---" + desc, or desc alone when parent_desc is empty
JoinParent(parent_desc, desc) ==
    IF Len(parent_desc) > 0 THEN parent_desc \o SEP \o desc ELSE desc

----------------------------------------------------------------------------
(* ConfigLoader.load and filter_active_country_groups *)

NoConfig ==
    [none |-> TRUE, active_country_group_list |-> <<>>,
     all_country_group_list |-> <<>>, main_country_group |-> <<>>,
     main_country_group_description |-> <<>>]

UpperChars ==
    <<"A", "B", "C", "D", "E", "F", "G", "H", "I", "J", "K", "L", "M",
      "N", "O", "P", "Q", "R", "S", "T", "U", "V", "W", "X", "Y", "Z">>

LowerChars ==
    <<"a", "b", "c", "d", "e", "f", "g", "h", "i", "j", "k", "l", "m",
      "n", "o", "p", "q", "r", "s", "t", "u", "v", "w", "x", "y", "z">>

\* str.lower()
Lower(s) ==
    [i \in 1..Len(s) |->
        IF \E k \in 1..26 : UpperChars[k] = s[i]
        THEN LowerChars[CHOOSE k \in 1..26 : UpperChars[k] = s[i]]
        ELSE s[i]]

\* sub in s
Contains(s, sub) ==
    \E i \in 0..(Len(s) - Len(sub)) : SubSeq(s, i + 1, i + Len(sub)) = sub

\* str(x) of a table cell: the text itself, 'nan' for a missing value.
StrCell(x) == IF x = None THEN <<"n", "a", "n">> ELSE x

REMOVE == <<"r", "e", "m", "o", "v", "e">>
THIRD == <<"3", "r", "d">>
MISSING_3RD ==
    <<"M", "i", "s", "s", "i", "n", "g", " ", "3", "r", "d", " ",
      "c", "o", "u", "n", "t", "r", "y", " ", "g", "r", "o", "u", "p">>
MULTIPLE_3RD ==
    <<"M", "u", "l", "t", "i", "p", "l", "e", " ", "3", "r", "d", " ",
      "c", "o", "u", "n", "t", "r", "y", " ", "g", "r", "o", "u", "p">>
MULTIPLE_DESC ==
    <<"M", "u", "l", "t", "i", "p", "l", "e", " ", "g", "r", "o", "u", "p", "s", " ",
      "m", "a", "r", "k", "e", "d", " ", "a", "s", " ", "3", "r", "d">>

\* str(cg_full).split()[0], or the text itself when it has no word
FirstWord(s) ==
    LET starts == {i \in 1..Len(s) : s[i] # " "}
    IN  IF starts = {} THEN s
        ELSE LET a == CHOOSE i \in starts : \A j \in starts : i <= j
                 ends == {i \in a..Len(s) : i = Len(s) \/ s[i + 1] = " "}
                 b == CHOOSE i \in ends : \A j \in ends : i <= j
             IN  SubSeq(s, a, b)

\* "remove" in comment, for the lower-cased comment
CountsAsRemoved(comment) == Contains(comment, REMOVE)

\* One pass of the loop of load over a row with a 'Descartes CG'.
LoadRow(acc, r) ==
    IF r.cg = None THEN acc
    ELSE LET cg      == FirstWord(r.cg)
             all1    == Append(acc.all, r.cg)
             all2    == IF InList(cg, all1) THEN all1 ELSE Append(all1, cg)
             comment == Lower(StrCell(r.comment))
             act1    == Append(acc.active, r.cg)
             act2    == IF InList(cg, act1) THEN act1 ELSE Append(act1, cg)
         IN  [all    |-> all2,
              active |-> IF ~CountsAsRemoved(comment) THEN act2 ELSE acc.active,
              third  |-> IF comment = THIRD
                         THEN Append(acc.third, [cg |-> cg, full |-> r.cg,
                                                 description |-> StrCell(r.description)])
                         ELSE acc.third]

RECURSIVE LoadRows(_, _)
LoadRows(rows, n) ==
    IF n = 0 THEN [all |-> <<>>, active |-> <<>>, third |-> <<>>]
    ELSE LoadRow(LoadRows(rows, n - 1), rows[n])

\* A rule that takes the first '3rd' row whatever the others say.
calculate_main_country_group_first(third_country_groups) ==
    IF third_country_groups = <<>> THEN <<MISSING_3RD, <<>>>>
    ELSE <<third_country_groups[1].cg, third_country_groups[1].description>>

calculate_main_country_group(third_country_groups) ==
    IF third_country_groups = <<>> THEN <<MISSING_3RD, <<>>>>
    ELSE IF Cardinality({third_country_groups[i].cg :
                            i \in 1..Len(third_country_groups)}) > 1
    THEN <<MULTIPLE_3RD, MULTIPLE_DESC>>
    ELSE <<third_country_groups[1].cg, third_country_groups[1].description>>

\* The part of ConfigLoader.load that reads the rate_types rows.
load(rate_rows) ==
    LET acc  == LoadRows(rate_rows, Len(rate_rows))
        main == calculate_main_country_group(acc.third)
    IN  [none |-> FALSE,
         active_country_group_list |-> acc.active,
         all_country_group_list |-> acc.all,
         main_country_group |-> main[1],
         main_country_group_description |-> main[2]]

\* country_group + " " + duty_rate_type; missing when either part is missing
Concat(a, b) == IF a = None \/ b = None THEN None ELSE a \o <<" ">> \o b

\* dtr_df['concat_cg_drt'] = dtr_df['country_group'] + " " + dtr_df['duty_rate_type']
with_concat(d) ==
    Table(d.cols \cup {"concat_cg_drt"},
          [i \in 1..Len(d.rows) |->
              [d.rows[i] EXCEPT !["concat_cg_drt"] =
                  Concat(d.rows[i]["country_group"], d.rows[i]["duty_rate_type"])]])

\* The 'Descartes CG' of the rows whose Comment is not exactly "remove".
active_groups(rate_rows) ==
    LET kept == SelectSeq(rate_rows, LAMBDA r : r.comment # REMOVE)
    IN  [i \in 1..Len(kept) |-> kept[i].cg]

filter_active_country_groups(d, rate_rows) ==
    IF rate_rows = <<>> THEN d
    ELSE Table(with_concat(d).cols,
               SelectSeq(with_concat(d).rows,
                         LAMBDA r : InList(r["concat_cg_drt"], active_groups(rate_rows))))

\* validate_config(dtr_df, nom_df, config), the country groups: the
\* combinations of the table (rows with both parts), the groups that the
\* configuration knows by their first word, the combinations whose group is
\* not known.
validate_config(d, cfg) ==
    IF ~({"country_group", "duty_rate_type"} \subseteq d.cols)
    THEN [is_valid |-> TRUE, country_groups |-> {}]
    ELSE LET xml_combinations ==
                 {<<d.rows[i]["country_group"], d.rows[i]["duty_rate_type"]>> :
                     i \in {k \in 1..Len(d.rows) :
                               /\ d.rows[k]["country_group"] # None
                               /\ d.rows[k]["duty_rate_type"] # None}}
             known_groups ==
                 {FirstWord(cfg.all_country_group_list[j]) :
                     j \in 1..Len(cfg.all_country_group_list)}
             missing == {c[1] \o <<" ">> \o c[2] :
                            c \in {x \in xml_combinations : x[1] \notin known_groups}}
         IN  [is_valid |-> missing = {}, country_groups |-> missing]

RECURSIVE get_full_desc(_, _, _, _)
\* get_full_desc(curr_id, depth) as a function of data_map and the cache: the
\* value returned and the cache afterwards.
get_full_desc(dm, cache, curr_id, depth) ==
    IF DepthExceeded(depth) \/ curr_id \notin DOMAIN dm
    THEN [val |-> <<>>, cache |-> cache]
    ELSE IF cache[curr_id] # None THEN [val |-> cache[curr_id], cache |-> cache]
    ELSE IF dm[curr_id].lvl = TENS \/ ~UsableParent(dm[curr_id].pid, curr_id)
    THEN [val |-> dm[curr_id].desc, cache |-> [cache EXCEPT ![curr_id] = dm[curr_id].desc]]
    ELSE LET parent == get_full_desc(dm, cache, dm[curr_id].pid, depth + 1)
             full   == JoinParent(parent.val, dm[curr_id].desc)
         IN  [val |-> full, cache |-> [parent.cache EXCEPT ![curr_id] = full]]

RECURSIVE DescribeRows(_, _, _)
\* The second loop of build_descriptions over the first n rows: the list of
\* full descriptions and the cache afterwards.
DescribeRows(rows, dm, n) ==
    IF n = 0 THEN [list |-> <<>>, cache |-> [x \in DOMAIN dm |-> None]]
    ELSE LET before == DescribeRows(rows, dm, n - 1)
         IN  IF rows[n].id # None /\ rows[n].id \in DOMAIN dm
             THEN LET got == get_full_desc(dm, before.cache, rows[n].id, 0)
                  IN  [list |-> Append(before.list, got.val), cache |-> got.cache]
             ELSE [list  |-> Append(before.list, replace_chars(rows[n].official_description)),
                   cache |-> before.cache]

\* build_descriptions(nom_df): the table with its full_description column.
build_descriptions(d) ==
    LET list == DescribeRows(d.rows, BuildDataMap(d.rows), Len(d.rows)).list
    IN  Table(d.cols \cup {"full_description"},
              [i \in 1..Len(d.rows) |-> [d.rows[i] EXCEPT !["full_description"] = list[i]]])

----------------------------------------------------------------------------
(* format_rate, format_date_from, format_date_to *)

IsDigitChar(c) == \E k \in 1..10 : DigitChars[k] = c

DigitVal(c) == (CHOOSE k \in 1..10 : DigitChars[k] = c) - 1

RECURSIVE NatOf(_)
\* The number a text of digits denotes.
NatOf(s) ==
    IF s = <<>> THEN 0
    ELSE 10 * NatOf(SubSeq(s, 1, Len(s) - 1)) + DigitVal(s[Len(s)])

\* int(s) succeeds: here, s is a non-empty text of digits.
IsInt(s) == Len(s) > 0 /\ \A i \in 1..Len(s) : IsDigitChar(s[i])

\* s.replace(c, "")
Without(s, c) == SelectSeq(s, LAMBDA x : x # c)

RECURSIVE RStrip(_, _)
\* s.rstrip(c)
RStrip(s, c) ==
    IF Len(s) > 0 /\ s[Len(s)] = c THEN RStrip(SubSeq(s, 1, Len(s) - 1), c) ELSE s

\* str(d).replace("-", "").replace(" ", "")[:8]
DateDigits(d) == Prefix(Without(Without(d, "-"), " "), 8)

format_date_from(d, year_start_int) ==
    IF d = None \/ d = <<>> THEN <<>>
    ELSE LET s == DateDigits(d)
         IN  IF IsInt(s)
             THEN IF NatOf(s) < year_start_int THEN NatStr(year_start_int)
                  ELSE NatStr(NatOf(s))
             ELSE s

\* A date_to that keeps the month and day of a year-9999 date.
format_date_to_plain(d) ==
    IF d = None \/ d = <<>> THEN <<>>
    ELSE IF IsInt(DateDigits(d)) THEN NatStr(NatOf(DateDigits(d))) ELSE DateDigits(d)

format_date_to(d) ==
    IF d = None \/ d = <<>> THEN <<>>
    ELSE LET s == DateDigits(d)
         IN  IF IsInt(s)
             THEN IF StartsWith(NatStr(NatOf(s)), <<"9", "9", "9", "9">>)
                  THEN <<"9", "9", "9", "9", "1", "2", "3", "1">>
                  ELSE NatStr(NatOf(s))
             ELSE s

\* float(r) succeeds: here, r is digits with at most one point, at least one
\* digit and at most three digits after the point.
IsDecimal(r) ==
    LET points == {i \in 1..Len(r) : r[i] = "."}
    IN  /\ Len(r) > 0
        /\ \A i \in 1..Len(r) : IsDigitChar(r[i]) \/ r[i] = "."
        /\ Cardinality(points) <= 1
        /\ Len(r) > Cardinality(points)
        /\ \A i \in points : Len(r) - i <= 3

\* float(r), in thousandths.
Milli(r) ==
    LET points == {i \in 1..Len(r) : r[i] = "."}
        p      == IF points = {} THEN Len(r) + 1 ELSE CHOOSE i \in points : TRUE
        whole  == SubSeq(r, 1, p - 1)
        frac   == SubSeq(r, p + 1, Len(r))
        pad    == [i \in 1..3 |-> IF i <= Len(frac) THEN frac[i] ELSE "0"]
    IN  1000 * NatOf(whole) + NatOf(pad)

\* The thousandths n below 10000 that end in 50, are no multiple of 250, and
\* whose nearest double lies above n / 1000 (0.05 is stored as 0.05000000000000000277).
DoubleAbove ==
    {50, 450, 550, 650, 1050, 1350, 1550, 1850, 2350, 2450, 2850, 2950, 3350,
     3450, 3850, 3950, 4150, 4450, 4650, 4950, 5150, 5450, 5650, 5950, 6150,
     6450, 6650, 6950, 7150, 7450, 7650, 7950, 8050, 8150, 8550, 8650, 9050,
     9150, 9550, 9650}

\* The tenths that f"{val:.1f}" prints for val = n / 1000: the double nearest
\* to val, rounded to one decimal, an exact tie (x.25, x.75) to the even digit.
RoundTenths(n) ==
    LET q == n \div 100
        r == n % 100
    IN  IF r < 50 THEN q
        ELSE IF r > 50 THEN q + 1
        ELSE IF n % 250 = 0 THEN (IF q % 2 = 0 THEN q ELSE q + 1)
        ELSE IF n \in DoubleAbove THEN q + 1 ELSE q

\* f"{val:.1f}"
FixedDecimals(n) ==
    NatStr(RoundTenths(n) \div 10) \o <<".">> \o <<DigitChars[(RoundTenths(n) % 10) + 1]>>

\* format_rate(r) with the default decimal_places = 1; the number 0 of a
\* header row is written as the text "0".
format_rate(r) ==
    IF r = None \/ r = <<>> THEN <<"0">>
    ELSE IF ~IsDecimal(r) THEN <<"0">>
    ELSE IF Milli(r) = 0 THEN <<"0">>
    ELSE LET formatted == RStrip(RStrip(FixedDecimals(Milli(r)), "0"), ".")
         IN  IF Len(formatted) > 0 THEN formatted ELSE <<"0">>

----------------------------------------------------------------------------
(* The output generators *)

\* What a generator gives back: a table, or the exception it raised.
Returns(rows) == [raised |-> "", rows |-> rows]
Raises(e) == [raised |-> e, rows |-> <<>>]

DASHES == <<"-", "-">>
ZEROS == <<"0", "0", "0", "0", "0", "0", "0", "0", "0", "0">>
FAR_END == <<"9", "9", "9", "9", "1", "2", "3", "1">>
PDR == <<"P", "D", "R">>
NMB == <<"N", "M", "B">>

\* config.main_cg if hasattr(config, 'main_cg') else ''
main_cg(cfg) == IF "main_cg" \in DOMAIN cfg THEN cfg["main_cg"] ELSE <<>>

\* f"{config.year}0101"
year_start(cfg) == cfg.year \o <<"0", "1", "0", "1">>

\* Series.fillna('')
FillNa(x) == IF x = None THEN <<>> ELSE x

\* pd.to_datetime(x, errors='coerce') is a date: here, the text YYYY-MM-DD.
IsIsoDate(x) ==
    /\ x # None /\ Len(x) = 10
    /\ \A i \in 1..10 : IF i \in {5, 8} THEN x[i] = "-" ELSE IsDigitChar(x[i])

\* to_datetime(valid_from) >= to_datetime(zd14_date); no date compares false.
OnOrAfter(valid_from, zd14_date) ==
    IsIsoDate(valid_from) /\ IsIsoDate(zd14_date) /\ StrGe(valid_from, zd14_date)

\* The rows of dtr_df that pass the zd14_date cut-off, each with its place in
\* dtr_df.
DateFiltered(d, cfg) ==
    LET all == [i \in 1..Len(d.rows) |-> [l |-> d.rows[i], src |-> i]]
    IN  IF cfg.zd14_date # None /\ cfg.zd14_date # <<>>
        THEN SelectSeq(all, LAMBDA x : OnOrAfter(x.l["valid_from"], cfg.zd14_date))
        ELSE all

\* A header row of generate_zd14; its numbers 0 are written as the text "0".
HeaderRow(hs, cfg) ==
    [EmptyRow EXCEPT !["hs"] = hs, !["country_group"] = main_cg(cfg),
                     !["adValoremRate_percentage"] = <<"0">>,
                     !["specificRate_ratePerUOM"] = <<"0">>,
                     !["valid_from"] = year_start(cfg), !["valid_to"] = FAR_END,
                     !["regulation"] = <<>>]

\* pd.concat([header_rows, filtered_dtr])
WithHeaders(filtered, cfg) ==
    <<[l |-> HeaderRow(DASHES, cfg), src |-> 0],
      [l |-> HeaderRow(ZEROS, cfg), src |-> 0]>> \o filtered

RECURSIVE MergeLeft(_, _, _)
\* pd.merge(left, right, left_on='hs', right_on='number', how='left'), then
\* sorted by Index: the first n left rows in order, each once per right row
\* with its HS code, or once with no right row.
MergeLeft(left, right, n) ==
    IF n = 0 THEN <<>>
    ELSE LET hits == SelectSeq(right, LAMBDA r : r["number"] = left[n].l["hs"])
         IN  MergeLeft(left, right, n - 1) \o
             (IF hits = <<>>
              THEN <<[l |-> left[n].l, r |-> EmptyRow, src |-> left[n].src]>>
              ELSE [j \in 1..Len(hits) |->
                       [l |-> left[n].l, r |-> hits[j], src |-> left[n].src]])

\* map_uom
map_uom(u, cfg) ==
    IF u = None \/ u = <<>> THEN <<>>
    ELSE IF u \in DOMAIN cfg.uom_dict THEN cfg.uom_dict[u] ELSE u

\* One row of the ZD14 frame; src is the place in dtr_df of the record the row
\* stems from, 0 for a header row.
Zd14Row(m, cfg) ==
    LET uom == map_uom(m.r["alternate_unit_1"], cfg)
    IN  [hs          |-> FillNa(m.l["hs"]),
         date_from   |-> format_date_from(m.l["valid_from"], NatOf(year_start(cfg))),
         date_to     |-> format_date_to(m.l["valid_to"]),
         desc        |-> FillNa(m.r["full_description"]),
         uom         |-> IF cfg.country = "US" /\ uom = <<"T">> THEN <<"T", "O">> ELSE uom,
         rate_type   |-> FillNa(m.l["country_group"]),
         base_rate   |-> format_rate(m.l["adValoremRate_percentage"]),
         rate_amount |-> IF cfg.country = "BR" THEN <<>>
                         ELSE format_rate(m.l["specificRate_ratePerUOM"]),
         cert        |-> FillNa(m.l["regulation"]),
         src         |-> m.src]

\* The right side of the merge is nom_df[cols], or a frame without columns
\* when nom_df is empty: the merge raises KeyError when `number` or another
\* selected column is not there.
RightSideMissing(nom, cols) == nom.rows = <<>> \/ ~(cols \subseteq nom.cols)

generate_zd14(dtr, nom, cfg) ==
    IF dtr.rows = <<>> THEN Returns(<<>>)
    ELSE IF RightSideMissing(nom, {"number", "full_description", "alternate_unit_1"})
    THEN Raises("KeyError")
    ELSE LET left   == WithHeaders(DateFiltered(dtr, cfg), cfg)
             merged == MergeLeft(left, nom.rows, Len(left))
         IN  Returns([i \in 1..Len(merged) |-> Zd14Row(merged[i], cfg)])

generate_capdr(dtr, nom, cfg) ==
    IF cfg.country # "CA" THEN Returns(<<>>)
    ELSE LET zd14 == generate_zd14(dtr, nom, cfg)
         IN  IF zd14.raised # "" THEN zd14
             ELSE IF zd14.rows = <<>> THEN Returns(<<>>)
             ELSE LET capdr == SelectSeq(zd14.rows, LAMBDA x :
                                   /\ x.rate_type = main_cg(cfg)
                                   /\ x.hs # DASHES /\ x.hs # ZEROS)
                  IN  Returns([i \in 1..Len(capdr) |-> [capdr[i] EXCEPT !.rate_type = PDR]])

\* A truncation that keeps every row.
DropDuplicateHs_none(rows) == rows

\* drop_duplicates(subset=['HS Number'], keep='first')
DropDuplicateHs(rows) ==
    LET idx == SelectSeq([i \in 1..Len(rows) |-> i],
                         LAMBDA i : ~\E j \in 1..(i - 1) : rows[j].hs = rows[i].hs)
    IN  [k \in 1..Len(idx) |-> rows[idx[k]]]

generate_mx6digits(dtr, nom, cfg) ==
    IF cfg.country # "MX" THEN Returns(<<>>)
    ELSE LET zd14 == generate_zd14(dtr, nom, cfg)
         IN  IF zd14.raised # "" THEN zd14
             ELSE IF zd14.rows = <<>> THEN Returns(<<>>)
             ELSE LET mx6 == SelectSeq(zd14.rows, LAMBDA x :
                                 x.rate_type = main_cg(cfg) /\ x.hs # DASHES)
                      cut == [i \in 1..Len(mx6) |-> [mx6[i] EXCEPT !.hs = Prefix(mx6[i].hs, 6)]]
                  IN  Returns(DropDuplicateHs(cut))

\* One row of the ZZDE or ZZDF frame, in the fields of a ZD14 row: the code,
\* the two rates, the units.
ZzRow(m, cfg, t_to) ==
    LET swap(x) == IF t_to /\ x = <<"T">> THEN <<"T", "O">> ELSE x
    IN  [hs          |-> swap(FillNa(m.l["hs"])),
         date_from   |-> year_start(cfg),
         date_to     |-> FAR_END,
         desc        |-> <<>>,
         uom         |-> swap(FillNa(m.r["alternate_unit_1"])),
         rate_type   |-> <<>>,
         base_rate   |-> swap(format_rate(m.l["adValoremRate_percentage"])),
         rate_amount |-> <<"0">>,
         cert        |-> <<>>,
         src         |-> m.src]

\* generate_zzde and generate_zzdf after their country test: the rows of the
\* main group, the amount ratePerUOM / multiplier, the header rows, the merge.
\* Reading a column that dtr_df does not have raises KeyError; dividing the
\* text of a rate raises TypeError; a missing rate divides to a missing amount.
generate_zz(dtr, nom, cfg, nom_cols, t_to) ==
    IF dtr.rows = <<>> THEN Returns(<<>>)
    ELSE IF ~({"country_group", "specificRate_multiplier", "specificRate_ratePerUOM"}
                 \subseteq dtr.cols)
    THEN Raises("KeyError")
    ELSE LET all      == [i \in 1..Len(dtr.rows) |-> [l |-> dtr.rows[i], src |-> i]]
             filtered == SelectSeq(all, LAMBDA x : x.l["country_group"] = main_cg(cfg))
         IN  IF \E i \in 1..Len(filtered) : filtered[i].l["specificRate_ratePerUOM"] # None
             THEN Raises("TypeError")
             ELSE IF RightSideMissing(nom, nom_cols) THEN Raises("KeyError")
             ELSE LET left   == WithHeaders(filtered, cfg)
                      merged == MergeLeft(left, nom.rows, Len(left))
                  IN  Returns([i \in 1..Len(merged) |-> ZzRow(merged[i], cfg, t_to)])

generate_zzde(dtr, nom, cfg) ==
    IF cfg.country # "CA" THEN Returns(<<>>)
    ELSE generate_zz(dtr, nom, cfg, {"number", "alternate_unit_1"}, FALSE)

generate_zzdf(dtr, nom, cfg) ==
    IF cfg.country # "US" THEN Returns(<<>>)
    ELSE generate_zz(dtr, nom, cfg,
                     {"number", "alternate_unit_1", "alternate_unit_2"}, TRUE)

\* x.replace('-', '')[:6] if x else ''
YearMonth(x) == Prefix(Without(x, "-"), 6)

\* One row of the Export HS frame, in the fields of a ZD14 row.
ExportHsRow(r, cfg, i) ==
    LET unit == FillNa(r["alternate_unit_1"])
    IN  [hs          |-> FillNa(r["number"]),
         date_from   |-> IF cfg.country = "CA" THEN cfg.year \o <<"0", "1">>
                         ELSE YearMonth(FillNa(r["valid_from"])),
         date_to     |-> IF cfg.country = "CA" THEN <<"9", "9", "9", "9", "1", "2">>
                         ELSE YearMonth(FillNa(r["valid_to"])),
         desc        |-> FillNa(r["full_description"]),
         uom         |-> IF unit = <<>> THEN NMB ELSE unit,
         rate_type   |-> <<>>,
         base_rate   |-> <<>>,
         rate_amount |-> <<>>,
         cert        |-> <<>>,
         src         |-> i]

generate_export_hs(nom, cfg) ==
    IF ~({"hs_flag", "level_id"} \subseteq nom.cols) THEN Raises("KeyError")
    ELSE IF ~(({"number", "alternate_unit_1", "full_description"}
                 \cup (IF cfg.country = "CA" THEN {} ELSE {"valid_from", "valid_to"}))
              \subseteq nom.cols)
    THEN Raises("KeyError")
    ELSE LET target_level == IF cfg.country = "US" THEN <<"5", "0">> ELSE <<"4", "0">>
             idx  == SelectSeq([i \in 1..Len(nom.rows) |-> i], LAMBDA i :
                         /\ nom.rows[i]["hs_flag"] = "01-active"
                         /\ PyStr(nom.rows[i]["level_id"]) = target_level)
             rows == [k \in 1..Len(idx) |-> ExportHsRow(nom.rows[idx[k]], cfg, idx[k])]
         IN  Returns(sort_values(rows, <<"hs">>, <<TRUE>>))

----------------------------------------------------------------------------
(* Tables of the ingestor, for flag_hs *)

MaxRows == 3

D2024 == <<"2", "0", "2", "4", "-", "0", "1", "-", "0", "1">>
D2025 == <<"2", "0", "2", "5", "-", "0", "1", "-", "0", "1">>
E2025 == <<"2", "0", "2", "5", "-", "1", "2", "-", "3", "1">>
E2026 == <<"2", "0", "2", "6", "-", "1", "2", "-", "3", "1">>
E9999 == <<"9", "9", "9", "9", "-", "1", "2", "-", "3", "1">>
Y2026 == <<"2", "0", "2", "6">>


\* duty_rate_entity x country_group: hs_id, duty_rate_type, valid_from,
\* valid_to, the country group's id and the ad-valorem percentage, each the
\* text of an XML attribute (None when the attribute is not there).
DtrCols ==
    {"hs", "duty_rate_type", "valid_from", "valid_to", "country_group",
     "adValoremRate_percentage"}

DtrBase ==
    [EmptyRow EXCEPT !["hs"] = <<"2", "5">>, !["duty_rate_type"] = <<"M">>,
                     !["valid_from"] = D2025, !["valid_to"] = E2026,
                     !["country_group"] = <<"A">>,
                     !["adValoremRate_percentage"] = <<"1", "0">>]

\* The base record and the records that differ from it in one attribute.
DtrPool ==
    {DtrBase,
     [DtrBase EXCEPT !["hs"] = <<"2", "6">>],
     [DtrBase EXCEPT !["duty_rate_type"] = <<"P">>],
     [DtrBase EXCEPT !["country_group"] = <<"B">>],
     [DtrBase EXCEPT !["valid_from"] = D2024]}
    \cup {[DtrBase EXCEPT !["valid_to"] = v] :
             v \in {E2025, E9999, <<"a", "b", "c", "d">>, <<"2", "0", "2">>, None}}
    \cup {[DtrBase EXCEPT !["adValoremRate_percentage"] = v] : v \in {<<"9">>, None}}

\* number_data: one column per child element; the HS code is the child
\* `number`.  The validity and version columns carry either the standard names
\* or the XML names that flag_hs maps.
NomColsStd == {"number", "version_number", "version_date", "valid_from", "valid_to"}
NomColsXml ==
    {"number", "version_number", "date_of_physical_update", "validity_begin",
     "validity_end"}

NomRow(xml, number, version_number, version_date, valid_from, valid_to) ==
    IF xml
    THEN [EmptyRow EXCEPT !["number"] = number, !["version_number"] = version_number,
                          !["date_of_physical_update"] = version_date,
                          !["validity_begin"] = valid_from,
                          !["validity_end"] = valid_to]
    ELSE [EmptyRow EXCEPT !["number"] = number, !["version_number"] = version_number,
                          !["version_date"] = version_date,
                          !["valid_from"] = valid_from, !["valid_to"] = valid_to]

NomPool(xml) ==
    {NomRow(xml, <<"2", "5">>, <<"1">>, D2025, D2025, E2026),
     NomRow(xml, <<"2", "6">>, <<"1">>, D2025, D2025, E2026),
     NomRow(xml, <<"2", "5">>, <<"2">>, D2025, D2025, E2026),
     NomRow(xml, <<"2", "5">>, <<"1">>, D2024, D2025, E2026),
     NomRow(xml, <<"2", "5">>, <<"1">>, D2025, D2024, E2026),
     NomRow(xml, <<"2", "5">>, <<"1">>, D2025, D2025, E2025),
     NomRow(xml, <<"2", "5">>, <<"1">>, D2025, D2025, None)}

SeqsUpTo(S, n) == UNION {[1..k -> S] : k \in 1..n}

IdleFlag ==
    /\ year = Y2026 /\ doc_type = "DTR" /\ is_export = FALSE
    /\ df = NoTable /\ result = NoTable /\ prev = NoTable

IdleFilter ==
    /\ config = [min_chapter |-> 25, chapter_list |-> ChapterList(25)]
    /\ hist = <<>> /\ ops = <<>>

IdleDesc ==
    /\ nom_df = <<>> /\ data_map = [x \in {} |-> x] /\ full_desc_cache = [x \in {} |-> x]
    /\ stack = <<>> /\ ret = <<>> /\ row = 1 /\ full_descriptions = <<>> /\ pc = "done"

IdleLoad ==
    /\ rate_type_df = <<>> /\ app_config = NoConfig
    /\ dtr_df = NoTable /\ active_df = NoTable

NoOutput == [gen |-> "none", raised |-> "", rows |-> <<>>]

NoText == [fn |-> "none", text |-> <<>>]

IdleConfig ==
    [country |-> "NZ", year |-> Y2026, zd14_date |-> None,
     main_country_group |-> <<>>, uom_dict |-> [u \in {} |-> u]]

IdleExport ==
    /\ exp_config = IdleConfig /\ exp_dtr = NoTable /\ exp_nom = NoTable
    /\ output = NoOutput /\ stage = "idle" /\ dtr_flagged = NoTable

IdleFormat ==
    /\ fmt_arg = [rate |-> None, date |-> None, year_start_int |-> 0]
    /\ fmt_out = NoText

IdleCsv ==
    /\ files = <<>> /\ csv_df = NoTable /\ max_rows = 0 /\ version = 0
    /\ start_row = 0 /\ file_idx = 0 /\ exported_files = <<>>
    /\ csv_pc = "idle" /\ calls = 0

IdleIngest == file_paths = <<>> /\ parse_doc_type = "NOM" /\ all_data = NoTable

IdleFiles == IdleCsv /\ IdleIngest

IdleRest == IdleLoad /\ IdleExport /\ IdleFormat /\ IdleFiles

InitFlag ==
    /\ IdleFilter /\ IdleDesc /\ IdleRest
    /\ year = Y2026
    /\ \/ /\ doc_type = "DTR" /\ is_export = FALSE
          /\ \E rows \in SeqsUpTo(DtrPool, MaxRows) : df = Table(DtrCols, rows)
       \/ /\ doc_type = "NOM" /\ is_export \in BOOLEAN
          /\ \E xml \in BOOLEAN : \E rows \in SeqsUpTo(NomPool(xml), MaxRows) :
                df = Table(IF xml THEN NomColsXml ELSE NomColsStd, rows)
    /\ result = NoTable
    /\ prev = NoTable

\* A call of flag_hs on the current table.
FlagHs ==
    /\ prev.none
    /\ result' = flag_hs(df, year, doc_type, is_export)
    /\ prev' = result
    /\ UNCHANGED <<df, doc_type, is_export, year, filterVars, descVars, restVars>>

\* The same rows arrive in another order (another file order, another run):
\* two neighbouring rows change places; any reordering is a sequence of these.
Reorder ==
    /\ ~result.none /\ prev.none
    /\ \E i \in 1..(Len(df.rows) - 1) :
          /\ df.rows[i] # df.rows[i + 1]
          /\ df' = Table(df.cols, [k \in 1..Len(df.rows) |->
                                     IF k = i THEN df.rows[i + 1]
                                     ELSE IF k = i + 1 THEN df.rows[i]
                                     ELSE df.rows[k]])
    /\ UNCHANGED <<doc_type, is_export, year, result, prev, filterVars, descVars, restVars>>

NextFlag == FlagHs \/ Reorder

SpecFlag == InitFlag /\ [][NextFlag]_vars

----------------------------------------------------------------------------
(* The filters on a table with an `hs` column *)

MaxCodes == 2
MaxOps == 2

HsPool ==
    {None, <<>>, <<"2">>, <<"0", "0">>, <<"2", "5">>, <<"2", "4">>, <<"9", "9">>,
     <<"0", "0", "2", "5">>, <<"0", "0", "0", "0">>,
     <<"0", "0", "0", "0", "2", "5">>,
     <<"0", "4", "0", "9", "0", "0", "0", "0", "0", "0">>,
     <<"2", "5", "0", "1", "0", "0", "0", "0", "0", "1">>}

MinChapters == {4, 25, 100}

HsRow(hs) == [EmptyRow EXCEPT !["hs"] = hs]

InitFilter ==
    /\ IdleFlag /\ IdleDesc /\ IdleRest
    /\ \E m \in MinChapters : config = [min_chapter |-> m, chapter_list |-> ChapterList(m)]
    /\ \E codes \in SeqsUpTo(HsPool, MaxCodes) :
          hist = <<Table({"hs"}, [i \in 1..Len(codes) |-> HsRow(codes[i])])>>
    /\ ops = <<>>

Current == hist[Len(hist)]

CleanseHs ==
    /\ Len(hist) >= 1 /\ Len(ops) < MaxOps
    /\ hist' = Append(hist, cleanse_hs(Current, "hs"))
    /\ ops' = Append(ops, "cleanse_hs")
    /\ UNCHANGED <<config, flagVars, descVars, restVars>>

FilterByChapter ==
    /\ Len(hist) >= 1 /\ Len(ops) < MaxOps
    /\ hist' = Append(hist, filter_by_chapter(Current, config.chapter_list))
    /\ ops' = Append(ops, "filter_by_chapter")
    /\ UNCHANGED <<config, flagVars, descVars, restVars>>

NextFilter == CleanseHs \/ FilterByChapter

SpecFilter == InitFilter /\ [][NextFilter]_vars


----------------------------------------------------------------------------
(* build_descriptions on a nomenclature table, one step of the interpreter  *)
(* at a time                                                               *)

\* Rows of a small table, records of a chain, and the frames the interpreter
\* allows get_full_desc before it raises RecursionError.
MaxNom == 3
MaxChain == 23
MaxStack == 30

TextAB == <<"a", ";", "b">>

NomDesc(id, parent_id, level_id, official_description) ==
    [id |-> id, parent_id |-> parent_id, level_id |-> level_id,
     official_description |-> official_description]

\* The records a row i of an n-row table may be: a chapter (level 10), or a
\* lower level whose parent pointer is missing, points at the row before, at
\* the row after (around the table), or at itself.
RowChoices(i, n) ==
    LET before == IF i = 1 THEN n ELSE i - 1
        after  == IF i = n THEN 1 ELSE i + 1
    IN  {NomDesc(IntStr(i), None, TENS, d) : d \in {<<>>, TextAB}}
        \cup {NomDesc(IntStr(i), p, TWENTY, d) :
                 p \in {None, IntStr(before), IntStr(after), IntStr(i)},
                 d \in {<<>>, TextAB}}

RECURSIVE TablesOf(_, _)
\* The tables of n records cut after record k: any choice for each record.
TablesOf(k, n) ==
    IF k = 0 THEN {<<>>}
    ELSE {Append(t, r) : t \in TablesOf(k - 1, n), r \in RowChoices(k, n)}

\* Small tables of any shape; the last row may instead lack its id, or point
\* at a record that is not in the table.
SmallTables == UNION {TablesOf(n, n) : n \in 1..MaxNom}

LastRowVariants(t) ==
    LET n == Len(t)
    IN  {t,
         [t EXCEPT ![n] = [t[n] EXCEPT !.id = None]],
         [t EXCEPT ![n] = [t[n] EXCEPT !.parent_id = <<"9", "9">>, !.level_id = TWENTY]]}

\* A chain of n records, record k the child of record k - 1, each described
\* by its own id; record 1 is the chapter, or (cyclic) the child of record n.
\* The rows come root first or leaf first.
Chain(n, cyclic, leafFirst) ==
    [j \in 1..n |->
        LET k == IF leafFirst THEN n + 1 - j ELSE j
        IN  IF k = 1
            THEN IF cyclic THEN NomDesc(IntStr(1), IntStr(n), TWENTY, IntStr(1))
                 ELSE NomDesc(IntStr(1), None, TENS, IntStr(1))
            ELSE NomDesc(IntStr(k), IntStr(k - 1), TWENTY, IntStr(k))]

InitDesc ==
    /\ IdleFlag /\ IdleFilter /\ IdleRest
    /\ \/ nom_df = <<>>
       \/ \E t \in SmallTables : nom_df \in LastRowVariants(t)
       \/ \E n \in 1..MaxChain : \E cyclic, leafFirst \in BOOLEAN :
             nom_df = Chain(n, cyclic, leafFirst)
    /\ data_map = [x \in {} |-> x] /\ full_desc_cache = [x \in {} |-> x]
    /\ stack = <<>> /\ ret = <<>> /\ row = 1 /\ full_descriptions = <<>>
    /\ pc = "start"

Top == stack[Len(stack)]
Pop == SubSeq(stack, 1, Len(stack) - 1)

\* The first loop fills data_map; the cache starts empty.
BuildMap ==
    /\ pc = "start"
    /\ data_map' = BuildDataMap(nom_df)
    /\ full_desc_cache' = [x \in DOMAIN BuildDataMap(nom_df) |-> None]
    /\ pc' = "rows"
    /\ UNCHANGED <<nom_df, stack, ret, row, full_descriptions, flagVars, filterVars, restVars>>

\* The second loop at a row: a row with an id calls get_full_desc(str(rid)),
\* a row without one takes its own sanitised description.
NextRow ==
    /\ pc = "rows" /\ row <= Len(nom_df)
    /\ IF nom_df[row].id # None /\ nom_df[row].id \in DOMAIN data_map
       THEN /\ stack' = <<[curr_id |-> nom_df[row].id, depth |-> 0]>>
            /\ pc' = "call"
            /\ UNCHANGED <<row, full_descriptions>>
       ELSE /\ full_descriptions' =
                   Append(full_descriptions, replace_chars(nom_df[row].official_description))
            /\ row' = row + 1
            /\ UNCHANGED <<stack, pc>>
    /\ UNCHANGED <<nom_df, data_map, full_desc_cache, ret, flagVars, filterVars, restVars>>

\* get_full_desc from its entry to its first return or to its recursive call.
Enter ==
    /\ pc = "call"
    /\ LET curr_id == Top.curr_id
           depth   == Top.depth
       IN  IF DepthExceeded(depth) \/ curr_id \notin DOMAIN data_map
           THEN /\ ret' = <<>> /\ stack' = Pop /\ pc' = "ret"
                /\ UNCHANGED full_desc_cache
           ELSE IF full_desc_cache[curr_id] # None
           THEN /\ ret' = full_desc_cache[curr_id] /\ stack' = Pop /\ pc' = "ret"
                /\ UNCHANGED full_desc_cache
           ELSE IF data_map[curr_id].lvl = TENS
                   \/ ~UsableParent(data_map[curr_id].pid, curr_id)
           THEN /\ full_desc_cache' =
                       [full_desc_cache EXCEPT ![curr_id] = data_map[curr_id].desc]
                /\ ret' = data_map[curr_id].desc /\ stack' = Pop /\ pc' = "ret"
           ELSE IF Len(stack) >= MaxStack
           THEN /\ pc' = "error"
                /\ UNCHANGED <<stack, ret, full_desc_cache>>
           ELSE /\ stack' = Append(stack, [curr_id |-> data_map[curr_id].pid,
                                           depth |-> depth + 1])
                /\ pc' = "call"
                /\ UNCHANGED <<ret, full_desc_cache>>
    /\ UNCHANGED <<nom_df, data_map, row, full_descriptions, flagVars, filterVars, restVars>>

\* The recursive call returned parent_desc to the frame below it.
Resume ==
    /\ pc = "ret" /\ Len(stack) > 0
    /\ LET full == JoinParent(ret, data_map[Top.curr_id].desc)
       IN  /\ full_desc_cache' = [full_desc_cache EXCEPT ![Top.curr_id] = full]
           /\ ret' = full
    /\ stack' = Pop
    /\ UNCHANGED <<nom_df, data_map, row, full_descriptions, pc, flagVars, filterVars, restVars>>

\* The outermost call returned to the second loop.
Collect ==
    /\ pc = "ret" /\ Len(stack) = 0
    /\ full_descriptions' = Append(full_descriptions, ret)
    /\ row' = row + 1
    /\ pc' = "rows"
    /\ UNCHANGED <<nom_df, data_map, full_desc_cache, stack, ret, flagVars, filterVars, restVars>>

\* nom_df['full_description'] = full_descriptions
Finish ==
    /\ pc = "rows" /\ row > Len(nom_df)
    /\ pc' = "done"
    /\ UNCHANGED <<nom_df, data_map, full_desc_cache, stack, ret, row,
                   full_descriptions, flagVars, filterVars, restVars>>

NextDesc == BuildMap \/ NextRow \/ Enter \/ Resume \/ Collect \/ Finish

\* The interpreter runs the function to its end: a step that can be taken is
\* taken.
SpecDesc == InitDesc /\ [][NextDesc]_vars /\ WF_vars(NextDesc)

----------------------------------------------------------------------------
(* The configuration of a country and the country-group filter *)

MaxRates == 2

RateCgPool == {None, <<"A", " ", "P">>, <<"A", " ", "M">>, <<"B", " ", "P">>}

CommentPool ==
    {<<>>, REMOVE, <<"R", "e", "m", "o", "v", "e">>,
     <<"t", "o", " ", "r", "e", "m", "o", "v", "e">>, THIRD, <<"3", "R", "D">>}

RateRow(cg, comment) == [cg |-> cg, comment |-> comment, description |-> <<"d">>]

RatePool == {RateRow(cg, c) : cg \in RateCgPool, c \in CommentPool}

CgRow(cg, drt) ==
    [EmptyRow EXCEPT !["country_group"] = cg, !["duty_rate_type"] = drt,
                     !["hs"] = <<"2", "5">>]

\* One DTR record per composite key that a rate row may name, and one that
\* none names.
CgTable ==
    Table(DtrCols, <<CgRow(<<"A">>, <<"P">>), CgRow(<<"A">>, <<"M">>),
                     CgRow(<<"B">>, <<"P">>), CgRow(<<"C">>, <<"P">>)>>)

\* The records of group A alone.
CgTableOneGroup == Table(DtrCols, SubSeq(CgTable.rows, 1, 2))

InitLoad ==
    /\ IdleFlag /\ IdleFilter /\ IdleDesc /\ IdleExport /\ IdleFormat /\ IdleFiles
    /\ rate_type_df \in {<<>>} \cup SeqsUpTo(RatePool, MaxRates)
    /\ app_config = NoConfig
    /\ dtr_df \in {CgTable, CgTableOneGroup}
    /\ active_df = NoTable

Load ==
    /\ app_config.none
    /\ app_config' = load(rate_type_df)
    /\ UNCHANGED <<rate_type_df, dtr_df, active_df, notLoadVars>>

FilterActiveCountryGroups ==
    /\ ~app_config.none /\ active_df.none
    /\ active_df' = filter_active_country_groups(dtr_df, rate_type_df)
    /\ dtr_df' = IF rate_type_df = <<>> THEN dtr_df ELSE with_concat(dtr_df)
    /\ UNCHANGED <<rate_type_df, app_config, notLoadVars>>

NextLoad == Load \/ FilterActiveCountryGroups

SpecLoad == InitLoad /\ [][NextLoad]_vars

----------------------------------------------------------------------------
(* The generators on a DTR table, a NOM table and a configuration *)

MaxExpDtr == 2
MaxExpNom == 2

CODE1 == <<"2", "5", "0", "1", "0", "0", "0", "0", "0", "1">>
CODE2 == <<"2", "5", "0", "1", "0", "0", "0", "0", "0", "2">>
MARCH2026 == <<"2", "0", "2", "6", "-", "0", "3", "-", "0", "1">>
KGM == <<"K", "G", "M">>

ExpDtrRow(cg, hs, valid_from, valid_to, pct) ==
    [EmptyRow EXCEPT !["country_group"] = cg, !["hs"] = hs,
                     !["duty_rate_type"] = <<"P">>, !["valid_from"] = valid_from,
                     !["valid_to"] = valid_to, !["adValoremRate_percentage"] = pct,
                     !["hs_flag"] = "01-active"]

\* Active DTR records: two of group B, two whose country_group has no id.
ExpDtrPool ==
    {ExpDtrRow(<<"B">>, CODE1, D2024, E9999, <<"5">>),
     ExpDtrRow(<<"B">>, CODE2, MARCH2026, E2026, <<"2", ".", "2", "5">>),
     ExpDtrRow(None, CODE1, D2025, E2026, None),
     ExpDtrRow(None, CODE2, D2025, E9999, <<"5">>)}

ExpNomCols ==
    {"number", "full_description", "alternate_unit_1", "hs_flag", "level_id",
     "valid_from", "valid_to"}

ExpNomRow(number, desc, unit, flag, level) ==
    [EmptyRow EXCEPT !["number"] = number, !["full_description"] = desc,
                     !["alternate_unit_1"] = unit, !["hs_flag"] = flag,
                     !["level_id"] = level, !["valid_from"] = D2025,
                     !["valid_to"] = E9999]

\* Flagged NOM records with their descriptions: two versions of one code and
\* another code.
ExpNomPool ==
    {ExpNomRow(CODE1, <<"d">>, <<"T">>, "01-active", <<"4", "0">>),
     ExpNomRow(CODE1, <<"e">>, None, "03-duplicate", <<"4", "0">>),
     ExpNomRow(CODE2, <<"f">>, KGM, "01-active", <<"5", "0">>)}

Countries == {"CA", "MX", "US"}

ExpConfig(country, main, zd14_date) ==
    [country |-> country, year |-> Y2026, zd14_date |-> zd14_date,
     main_country_group |-> main, uom_dict |-> [u \in {KGM} |-> <<"K", "G">>]]

\* A table without rows: with its columns (every row was filtered away) or
\* without any (nothing was ingested).
EmptyTables(cols) == {Table(cols, <<>>), Table({}, <<>>)}

InitExport ==
    /\ IdleFlag /\ IdleFilter /\ IdleDesc /\ IdleLoad /\ IdleFormat /\ IdleFiles
    /\ \E c \in Countries : \E g \in {<<"B">>, MISSING_3RD, MULTIPLE_3RD} :
          exp_config = ExpConfig(c, g, None)
    /\ exp_dtr \in EmptyTables(DtrCols \cup {"hs_flag"})
                   \cup {Table(DtrCols \cup {"hs_flag"}, rows) :
                            rows \in SeqsUpTo(ExpDtrPool, MaxExpDtr)}
    /\ exp_nom \in EmptyTables(ExpNomCols)
                   \cup {Table(ExpNomCols, rows) : rows \in SeqsUpTo(ExpNomPool, MaxExpNom)}
    /\ output = NoOutput /\ stage = "generate" /\ dtr_flagged = NoTable

Ran(g, res) == [gen |-> g, raised |-> res.raised, rows |-> res.rows]

GenerateZd14 ==
    /\ stage = "generate" /\ output.gen = "none"
    /\ output' = Ran("ZD14", generate_zd14(exp_dtr, exp_nom, exp_config))
    /\ UNCHANGED <<exp_config, exp_dtr, exp_nom, stage, dtr_flagged, notExportVars>>

GenerateCapdr ==
    /\ stage = "generate" /\ output.gen = "none"
    /\ output' = Ran("CAPDR", generate_capdr(exp_dtr, exp_nom, exp_config))
    /\ UNCHANGED <<exp_config, exp_dtr, exp_nom, stage, dtr_flagged, notExportVars>>

GenerateMx6digits ==
    /\ stage = "generate" /\ output.gen = "none"
    /\ output' = Ran("MX6Digits", generate_mx6digits(exp_dtr, exp_nom, exp_config))
    /\ UNCHANGED <<exp_config, exp_dtr, exp_nom, stage, dtr_flagged, notExportVars>>

GenerateZzde ==
    /\ stage = "generate" /\ output.gen = "none"
    /\ output' = Ran("ZZDE", generate_zzde(exp_dtr, exp_nom, exp_config))
    /\ UNCHANGED <<exp_config, exp_dtr, exp_nom, stage, dtr_flagged, notExportVars>>

GenerateZzdf ==
    /\ stage = "generate" /\ output.gen = "none"
    /\ output' = Ran("ZZDF", generate_zzdf(exp_dtr, exp_nom, exp_config))
    /\ UNCHANGED <<exp_config, exp_dtr, exp_nom, stage, dtr_flagged, notExportVars>>

GenerateExportHs ==
    /\ stage = "generate" /\ output.gen = "none"
    /\ output' = Ran("ExportHS", generate_export_hs(exp_nom, exp_config))
    /\ UNCHANGED <<exp_config, exp_dtr, exp_nom, stage, dtr_flagged, notExportVars>>

NextExport ==
    \/ GenerateZd14 \/ GenerateCapdr \/ GenerateMx6digits
    \/ GenerateZzde \/ GenerateZzdf \/ GenerateExportHs

SpecExport == InitExport /\ [][NextExport]_vars

----------------------------------------------------------------------------
(* The import pipeline: flag DTR, keep active, flag NOM, describe, ZD14 *)

JUNE2025 == <<"2", "0", "2", "5", "-", "0", "6", "-", "0", "1">>

PipeDtrRow(hs, valid_from, valid_to) ==
    [EmptyRow EXCEPT !["country_group"] = <<"B">>, !["hs"] = hs,
                     !["duty_rate_type"] = <<"P">>, !["valid_from"] = valid_from,
                     !["valid_to"] = valid_to, !["adValoremRate_percentage"] = <<"5">>]

\* Two versions of one code, an expired record and a current one of another,
\* and a record that was valid for the year 2025 only.
PipeDtrPool ==
    {PipeDtrRow(CODE1, D2024, E9999), PipeDtrRow(CODE1, D2025, E2026),
     PipeDtrRow(CODE2, MARCH2026, E2025), PipeDtrRow(CODE2, MARCH2026, E9999),
     PipeDtrRow(CODE2, D2025, E2025)}

PipeNomCols ==
    {"number", "version_number", "valid_from", "valid_to", "id", "parent_id",
     "level_id", "official_description", "alternate_unit_1"}

PipeNomRow(number, version_number, id, parent_id, level_id) ==
    [EmptyRow EXCEPT !["number"] = number, !["version_number"] = version_number,
                     !["valid_from"] = D2025, !["valid_to"] = E9999,
                     !["id"] = id, !["parent_id"] = parent_id,
                     !["level_id"] = level_id, !["official_description"] = TextAB,
                     !["alternate_unit_1"] = KGM]

\* Two versions of one code, and another code below the first.
PipeNomPool ==
    {PipeNomRow(CODE1, <<"1">>, <<"1">>, None, TENS),
     PipeNomRow(CODE1, <<"2">>, <<"2">>, None, TENS),
     PipeNomRow(CODE2, <<"1">>, <<"3">>, <<"1">>, TWENTY)}

InitPipeline ==
    /\ IdleFlag /\ IdleFilter /\ IdleDesc /\ IdleLoad /\ IdleFormat /\ IdleFiles
    /\ \E z \in {None, JUNE2025} : exp_config = ExpConfig("NZ", <<"B">>, z)
    /\ \E rows \in SeqsUpTo(PipeDtrPool, MaxExpDtr) : exp_dtr = Table(DtrCols, rows)
    /\ \E rows \in SeqsUpTo(PipeNomPool, MaxExpNom) : exp_nom = Table(PipeNomCols, rows)
    /\ output = NoOutput /\ stage = "flag_dtr" /\ dtr_flagged = NoTable

\* dtr_df = flag_hs(dtr_df, config, "DTR")
FlagDtr ==
    /\ stage = "flag_dtr"
    /\ dtr_flagged' = flag_hs(exp_dtr, exp_config.year, "DTR", FALSE)
    /\ stage' = "keep_active"
    /\ UNCHANGED <<exp_config, exp_dtr, exp_nom, output, notExportVars>>

\* A selection that keeps the records of every flag.
KeepEveryFlag ==
    /\ stage = "keep_active"
    /\ exp_dtr' = dtr_flagged
    /\ stage' = "flag_nom"
    /\ UNCHANGED <<exp_config, exp_nom, output, dtr_flagged, notExportVars>>

\* dtr_active = dtr_df[dtr_df['hs_flag'] == '01-active']
KeepActive ==
    /\ stage = "keep_active"
    /\ exp_dtr' = Table(dtr_flagged.cols,
                        SelectSeq(dtr_flagged.rows, LAMBDA r : r["hs_flag"] = "01-active"))
    /\ stage' = "flag_nom"
    /\ UNCHANGED <<exp_config, exp_nom, output, dtr_flagged, notExportVars>>

\* nom_df = flag_hs(nom_df, config, "NOM")
FlagNom ==
    /\ stage = "flag_nom"
    /\ exp_nom' = flag_hs(exp_nom, exp_config.year, "NOM", FALSE)
    /\ stage' = "describe"
    /\ UNCHANGED <<exp_config, exp_dtr, output, dtr_flagged, notExportVars>>

\* nom_df = build_descriptions(nom_df)
BuildDescriptions ==
    /\ stage = "describe"
    /\ exp_nom' = build_descriptions(exp_nom)
    /\ stage' = "zd14"
    /\ UNCHANGED <<exp_config, exp_dtr, output, dtr_flagged, notExportVars>>

\* zd14 = generate_zd14(dtr_active, nom_df, config)
PipelineZd14 ==
    /\ stage = "zd14"
    /\ output' = Ran("ZD14", generate_zd14(exp_dtr, exp_nom, exp_config))
    /\ stage' = "done"
    /\ UNCHANGED <<exp_config, exp_dtr, exp_nom, dtr_flagged, notExportVars>>

NextPipeline == FlagDtr \/ KeepActive \/ FlagNom \/ BuildDescriptions \/ PipelineZd14

SpecPipeline == InitPipeline /\ [][NextPipeline]_vars

----------------------------------------------------------------------------
(* The formatting functions on the values of a date or rate column *)

\* A date as the XML writes it, YYYY-MM-DD.
IsoDate(y, mo, d) ==
    NatStr(y) \o <<"-">> \o Zfill2(NatStr(mo)) \o <<"-">> \o Zfill2(NatStr(d))

FmtIsoDates == {IsoDate(y, mo, d) : y \in {2024, 2025, 2026, 2027, 9999},
                                    mo \in {1, 12}, d \in {1, 31}}

\* Dates with and without dashes, a missing date, an empty one and a text
\* that is no date.
FmtDatePool ==
    FmtIsoDates \cup {Without(d, "-") : d \in FmtIsoDates}
                \cup {None, <<>>, <<"n", "/", "a">>}

\* n thousandths written with three decimals.
Thousandths(n) ==
    NatStr(n \div 1000) \o <<".">> \o <<DigitChars[((n \div 100) % 10) + 1],
                                        DigitChars[((n \div 10) % 10) + 1],
                                        DigitChars[(n % 10) + 1]>>

\* The same number written without trailing zeros, as the XML has it.
ShortDecimal(n) == RStrip(RStrip(Thousandths(n), "0"), ".")

FmtRateValues == {0, 40, 50, 100, 250, 500, 2250, 2500, 5000, 9960, 10000, 12500}

FmtRatePool ==
    {Thousandths(n) : n \in FmtRateValues} \cup {ShortDecimal(n) : n \in FmtRateValues}
        \cup {None, <<>>, <<"a", "b", "c">>}

\* int(f"{config.year}0101")
FmtYearStarts == {NatOf(year_start([year |-> NatStr(y)])) : y \in {2025, 2026}}

InitFormat ==
    /\ IdleFlag /\ IdleFilter /\ IdleDesc /\ IdleLoad /\ IdleExport /\ IdleFiles
    /\ fmt_arg \in [rate : FmtRatePool, date : FmtDatePool, year_start_int : FmtYearStarts]
    /\ fmt_out = NoText

\* 'Date from': merged['valid_from'].apply(lambda d: format_date_from(d, year_start_int))
FormatDateFrom ==
    /\ fmt_out' = [fn |-> "format_date_from",
                   text |-> format_date_from(fmt_arg.date, fmt_arg.year_start_int)]
    /\ UNCHANGED <<fmt_arg, notFormatVars>>

\* 'Date to': merged['valid_to'].apply(format_date_to)
FormatDateTo ==
    /\ fmt_out' = [fn |-> "format_date_to", text |-> format_date_to(fmt_arg.date)]
    /\ UNCHANGED <<fmt_arg, notFormatVars>>

\* 'Base rate %': merged['adValoremRate_percentage'].apply(format_rate)
FormatRate ==
    /\ fmt_out' = [fn |-> "format_rate", text |-> format_rate(fmt_arg.rate)]
    /\ UNCHANGED <<fmt_arg, notFormatVars>>

NextFormat == FormatDateFrom \/ FormatDateTo \/ FormatRate

SpecFormat == InitFormat /\ [][NextFormat]_vars

----------------------------------------------------------------------------
(* find_next_version and export_csv_split on one output directory and prefix *)

MaxCsvRows == 3
MaxCalls == 2
MaxFiles == 4

\* os.path.exists(os.path.join(output_dir, f"{prefix} V{version}-1.csv"))
FirstChunkExists(fs, v) == <<v, 1>> \in DOMAIN fs

\* A probe that never looks at the directory.
find_next_version_one(fs) == 1

RECURSIVE ProbeFrom(_, _)
\* while os.path.exists(...): version += 1
ProbeFrom(fs, v) == IF FirstChunkExists(fs, v) THEN ProbeFrom(fs, v + 1) ELSE v

find_next_version(fs) == ProbeFrom(fs, 1)

\* The position that a slice bound k denotes in n items: a negative bound
\* counts from the end, every bound is cut to 0..n.
SlicePos(k, n) == IF k < 0 THEN (IF n + k < 0 THEN 0 ELSE n + k) ELSE Min(k, n)

\* A slice that takes one row more.
iloc_inclusive(rows, a, b) ==
    SubSeq(rows, SlicePos(a, Len(rows)) + 1, SlicePos(b + 1, Len(rows)))

\* df.iloc[a:b]
iloc(rows, a, b) == SubSeq(rows, SlicePos(a, Len(rows)) + 1, SlicePos(b, Len(rows)))

\* max_csv = int(global_settings.get("max_csv", 30000)): any integer.
CsvBudgets == (0 - 1)..(MaxCsvRows + 1)

CsvHeaders == {{"HS Number"}, {"HS Number", "Rate type"}}

\* Row i of the table of call c.
CsvRow(c, i) == [call |-> c, n |-> i]

InitCsv ==
    /\ IdleFlag /\ IdleFilter /\ IdleDesc /\ IdleLoad /\ IdleExport /\ IdleFormat
    /\ IdleIngest /\ IdleCsv

\* export_csv_split(df, output_dir, prefix, max_rows) up to its loop: an
\* empty table returns at once, any other picks the version.
ExportCsvSplit ==
    /\ csv_pc = "idle" /\ calls < MaxCalls
    /\ \E n \in 0..MaxCsvRows : \E cols \in CsvHeaders : \E m \in CsvBudgets :
          /\ csv_df' = Table(cols, [i \in 1..n |-> CsvRow(calls + 1, i)])
          /\ max_rows' = m
          /\ calls' = calls + 1
          /\ exported_files' = <<>>
          /\ IF n = 0
             THEN UNCHANGED <<files, version, start_row, file_idx, csv_pc>>
             ELSE /\ version' = find_next_version(files)
                  /\ start_row' = 0 /\ file_idx' = 1 /\ csv_pc' = "loop"
                  /\ UNCHANGED files
    /\ UNCHANGED notCsvVars

\* One iteration of the chunk loop.  The index is capped, for a loop whose
\* start row never reaches the row count.
WriteChunk ==
    /\ csv_pc = "loop" /\ start_row < Len(csv_df.rows) /\ file_idx <= MaxFiles
    /\ LET end_row == Min(start_row + max_rows, Len(csv_df.rows))
           chunk   == iloc(csv_df.rows, start_row, end_row)
           name    == <<version, file_idx>>
       IN  /\ files' = (name :> [header |-> csv_df.cols, rows |-> chunk, call |-> calls])
                          @@ files
           /\ exported_files' = Append(exported_files, name)
           /\ start_row' = end_row
           /\ file_idx' = file_idx + 1
    /\ UNCHANGED <<csv_df, max_rows, version, csv_pc, calls, notCsvVars>>

\* return exported_files
ReturnFiles ==
    /\ csv_pc = "loop" /\ ~(start_row < Len(csv_df.rows))
    /\ csv_pc' = "idle"
    /\ UNCHANGED <<files, csv_df, max_rows, version, start_row, file_idx,
                   exported_files, calls, notCsvVars>>

NextCsv == ExportCsvSplit \/ WriteChunk \/ ReturnFiles

SpecCsv == InitCsv /\ [][NextCsv]_vars

----------------------------------------------------------------------------
(* parse_xml_to_df on a batch of files *)

MaxBatch == 2
MaxNodes == 2

\* A record node of a file (number_data, texts, duty_rate_entity): its row,
\* and whether a comment is among its children.
XmlNode(name, k, comment) == [row |-> [file |-> name, n |-> k], comment |-> comment]

\* The files of one name: one that is not well-formed XML, and the
\* well-formed ones of up to MaxNodes record nodes.
XmlFiles(name) ==
    {[name |-> name, wellformed |-> FALSE, nodes |-> <<>>]}
        \cup {[name |-> name, wellformed |-> TRUE,
               nodes |-> [k \in 1..n |-> XmlNode(name, k, c[k])]] :
                 n \in 0..MaxNodes, c \in [1..MaxNodes -> BOOLEAN]}

\* etree.QName(child) raises ValueError on a comment, whose tag is no text.
\* The NOM and TXT branches call it for every child of a node, the DTR branch
\* never.
NodeRaises(node, doc) == doc \in {"NOM", "TXT"} /\ node.comment

RECURSIVE RowsUntilRaise(_, _, _)
\* The rows appended to all_data from the nodes k.. of a file: every node's
\* row, up to the node that raises.
RowsUntilRaise(nodes, k, doc) ==
    IF k > Len(nodes) \/ NodeRaises(nodes[k], doc) THEN <<>>
    ELSE <<nodes[k].row>> \o RowsUntilRaise(nodes, k + 1, doc)

\* One pass of the loop body: etree.parse raises before any row is read when
\* the file is not well-formed; the except clause logs and goes on.
ParseFile(f, doc) == IF ~f.wellformed THEN <<>> ELSE RowsUntilRaise(f.nodes, 1, doc)

RECURSIVE parse_xml_to_df(_, _)
parse_xml_to_df(paths, doc) ==
    IF paths = <<>> THEN <<>>
    ELSE parse_xml_to_df(SubSeq(paths, 1, Len(paths) - 1), doc)
             \o ParseFile(paths[Len(paths)], doc)

InitIngest ==
    /\ IdleFlag /\ IdleFilter /\ IdleDesc /\ IdleLoad /\ IdleExport /\ IdleFormat
    /\ IdleCsv
    /\ file_paths \in SeqsUpTo(XmlFiles("a.xml") \cup XmlFiles("b.xml"), MaxBatch)
    /\ parse_doc_type \in {"DTR", "NOM", "TXT"}
    /\ all_data = NoTable

\* df = pd.DataFrame(all_data)
ParseXmlToDf ==
    /\ all_data = NoTable
    /\ all_data' = Table({"file", "n"}, parse_xml_to_df(file_paths, parse_doc_type))
    /\ UNCHANGED <<file_paths, parse_doc_type, notIngestVars>>

NextIngest == ParseXmlToDf

SpecIngest == InitIngest /\ [][NextIngest]_vars

----------------------------------------------------------------------------
(* The export-direction pipeline: cleanse, chapter filter, flag, describe, *)
(* Export HS                                                               *)

\* number_data as the ingestor reads it: the code is `number`, the dates
\* carry the names of the XML.
XNomCols ==
    {"number", "validity_begin", "validity_end", "date_of_physical_update",
     "id", "parent_id", "level_id", "official_description", "alternate_unit_1"}

XNomRow(number, id, level_id) ==
    [EmptyRow EXCEPT !["number"] = number, !["validity_begin"] = D2025,
                     !["validity_end"] = E9999, !["date_of_physical_update"] = D2025,
                     !["id"] = id, !["parent_id"] = None, !["level_id"] = level_id,
                     !["official_description"] = TextAB, !["alternate_unit_1"] = KGM]

CH04 == <<"0", "4", "0", "9", "0", "0", "0", "0">>
CH25 == <<"2", "5", "0", "1", "0", "0", "0", "0">>

\* 8-digit records of chapter 04 and chapter 25 at the levels 40 and 50, and
\* a chapter 25 code with the 00 prefix.
XNomPool ==
    {XNomRow(CH04, <<"1">>, <<"4", "0">>), XNomRow(CH04, <<"2">>, <<"5", "0">>),
     XNomRow(CH25, <<"3">>, <<"4", "0">>), XNomRow(<<"0", "0">> \o CH25, <<"4">>, <<"5", "0">>)}

InitExpPipeline ==
    /\ IdleFlag /\ IdleFilter /\ IdleDesc /\ IdleLoad /\ IdleFormat /\ IdleFiles
    /\ \E c \in {"CA", "US"} : exp_config = ExpConfig(c, <<"B">>, None)
    /\ exp_dtr = NoTable /\ dtr_flagged = NoTable
    /\ \E rows \in SeqsUpTo(XNomPool, MaxExpNom) : exp_nom = Table(XNomCols, rows)
    /\ output = NoOutput /\ stage = "cleanse"

\* nom_df = cleanse_hs(nom_df, 'number')
CleanseNumber ==
    /\ stage = "cleanse"
    /\ exp_nom' = cleanse_hs(exp_nom, "number")
    /\ stage' = "chapter"
    /\ UNCHANGED <<exp_config, exp_dtr, output, dtr_flagged, notExportVars>>

\* nom_df = filter_by_chapter(nom_df, config)
FilterNomByChapter ==
    /\ stage = "chapter"
    /\ exp_nom' = filter_by_chapter(exp_nom, config.chapter_list)
    /\ stage' = "flag_export"
    /\ UNCHANGED <<exp_config, exp_dtr, output, dtr_flagged, notExportVars>>

\* nom_df = flag_hs(nom_df, config, "NOM", is_export=True)
FlagNomExport ==
    /\ stage = "flag_export"
    /\ exp_nom' = flag_hs(exp_nom, exp_config.year, "NOM", TRUE)
    /\ stage' = "describe_export"
    /\ UNCHANGED <<exp_config, exp_dtr, output, dtr_flagged, notExportVars>>

\* nom_df = build_descriptions(nom_df)
DescribeNomExport ==
    /\ stage = "describe_export"
    /\ exp_nom' = build_descriptions(exp_nom)
    /\ stage' = "export_hs"
    /\ UNCHANGED <<exp_config, exp_dtr, output, dtr_flagged, notExportVars>>

\* export_hs_df = generate_export_hs(nom_df, txt_df, config)
PipelineExportHs ==
    /\ stage = "export_hs"
    /\ output' = Ran("ExportHS", generate_export_hs(exp_nom, exp_config))
    /\ stage' = "exported"
    /\ UNCHANGED <<exp_config, exp_dtr, exp_nom, dtr_flagged, notExportVars>>

NextExpPipeline ==
    \/ CleanseNumber \/ FilterNomByChapter \/ FlagNomExport
    \/ DescribeNomExport \/ PipelineExportHs

SpecExpPipeline == InitExpPipeline /\ [][NextExpPipeline]_vars

----------------------------------------------------------------------------
(* Properties of flag_hs *)

Winner(f) == f \in {"01-active", "02-invalid"}

Called == ~result.none
CalledTwice == ~result.none /\ ~prev.none

\* How many rows of a table equal r, flag included.
Copies(t, r) == Cardinality({i \in 1..Len(t.rows) : t.rows[i] = r})

SameFlagPerRecord(t, u) ==
    \A i \in 1..Len(t.rows) : Copies(t, t.rows[i]) = Copies(u, t.rows[i])

\* C1: flag_hs is permutation-invariant: two calls on the same rows in two
\* orders give every record the same hs_flag, also when two records tie on
\* every sort key and differ in another field.
C1_PermutationInvariant ==
    CalledTwice => SameFlagPerRecord(result, prev) /\ SameFlagPerRecord(prev, result)

\* The grouping key the flagging is specified with.
GroupKey(r) ==
    IF doc_type = "DTR" THEN r["country_group"]
    ELSE IF is_export THEN <<>> ELSE r["version_number"]

SameGroup(r1, r2) == GroupKey(r1) = GroupKey(r2) /\ r1["hs"] = r2["hs"]

IsDigit(c) == c \in {"0", "1", "2", "3", "4", "5", "6", "7", "8", "9"}

RECURSIVE NumVal(_)
\* The number a text of digits denotes.
NumVal(s) ==
    IF Len(s) = 0 THEN 0
    ELSE 10 * NumVal(SubSeq(s, 1, Len(s) - 1)) + (Ord(s[Len(s)]) - 48)

AllDigits(s) == \A i \in 1..Len(s) : IsDigit(s[i])

\* valid_to starts with a 4-digit year that is >= y.
YearAtLeast(v, y) ==
    /\ v # None /\ Len(v) >= 4 /\ AllDigits(SubSeq(v, 1, 4))
    /\ NumVal(SubSeq(v, 1, 4)) >= NumVal(y)

\* C3: the winner of a group is 01-active exactly when its valid_to starts
\* with a 4-digit year >= config.year, and 02-invalid otherwise: a missing, a
\* too short and an unparseable valid_to all give 02-invalid.
C3_WinnerActiveIffYear ==
    Called =>
        \A i \in 1..Len(result.rows) :
            LET r == result.rows[i]
            IN  Winner(r["hs_flag"]) =>
                    (r["hs_flag"] = "01-active" <=> YearAtLeast(r["valid_to"], year))

\* The documented key order inside a group: greatest version_date, then
\* greatest valid_from, then smallest valid_to (dates as text, a missing date
\* last), then the greatest rate value (a missing rate last).
RateGreater(x, y) ==
    IF x = None THEN FALSE
    ELSE IF y = None THEN TRUE
    ELSE NumVal(x) > NumVal(y)

StrictlyBetter(r1, r2) ==
    LET dates == <<"version_date", "valid_from", "valid_to">>
        asc   == <<FALSE, FALSE, TRUE>>
    IN  \/ RowLess(r1, r2, dates, asc)
        \/ /\ \A k \in 1..3 : r1[dates[k]] = r2[dates[k]]
           /\ doc_type = "DTR"
           /\ \E k \in 1..Len(rate_cols) :
                 /\ \A i \in 1..(k - 1) : r1[rate_cols[i]] = r2[rate_cols[i]]
                 /\ RateGreater(r1[rate_cols[k]], r2[rate_cols[k]])

\* C4: the record of a group that is not flagged duplicate is first under the
\* documented key order: no record flagged 03-duplicate is strictly better
\* than the winner of its group.
C4_WinnerIsFirstInKeyOrder ==
    Called =>
        \A i, j \in 1..Len(result.rows) :
            /\ SameGroup(result.rows[i], result.rows[j])
            /\ Winner(result.rows[i]["hs_flag"])
            /\ result.rows[j]["hs_flag"] = "03-duplicate"
            => ~StrictlyBetter(result.rows[j], result.rows[i])

\* C5: in a flagged nomenclature table of the ingestor (HS code in `number`) a
\* record is 03-duplicate only if a record with the same HS code (and, in
\* import mode, the same version_number) precedes it in sort order.
C5_NomDuplicateHasSameCode ==
    Called /\ doc_type = "NOM" =>
        \A i \in 1..Len(result.rows) :
            result.rows[i]["hs_flag"] = "03-duplicate" =>
                \E j \in 1..(i - 1) :
                    /\ result.rows[j]["number"] = result.rows[i]["number"]
                    /\ is_export \/ result.rows[j]["version_number"]
                                      = result.rows[i]["version_number"]

----------------------------------------------------------------------------
(* Properties of the filters *)

Codes(t) == [i \in 1..Len(t.rows) |-> t.rows[i]["hs"]]

Has00(x) == x # None /\ StartsWith(x, <<"0", "0">>)
Has0000(x) == x # None /\ StartsWith(x, <<"0", "0", "0", "0">>)

CleanseSteps == {k \in 1..Len(ops) : ops[k] = "cleanse_hs"}
FilterSteps == {k \in 1..Len(ops) : ops[k] = "filter_by_chapter"}

\* Codes that do not start with '00' come out of a cleansing unchanged.
OtherCodesUnchanged ==
    \A k \in CleanseSteps : \A i \in 1..Len(hist[k].rows) :
        ~Has00(Codes(hist[k])[i]) => hist[k + 1].rows[i] = hist[k].rows[i]

\* C6 as stated: cleanse_hs is idempotent, a second cleansing changes no code,
\* and every code that does not start with '00' is returned unchanged.
C6_CleanseIdempotent ==
    /\ OtherCodesUnchanged
    /\ \A k \in CleanseSteps : (k + 1) \in CleanseSteps => hist[k + 2] = hist[k + 1]

\* C6 amended: a cleansing removes exactly the first two characters of a code
\* that starts with '00' and returns every other code unchanged; a second
\* cleansing changes no code, except a code that started with '0000', which
\* loses two more characters.
C6_CleanseOnce ==
    /\ OtherCodesUnchanged
    /\ \A k \in CleanseSteps : \A i \in 1..Len(hist[k].rows) :
          /\ Len(hist[k + 1].rows) = Len(hist[k].rows)
          /\ Has00(Codes(hist[k])[i]) =>
                Codes(hist[k + 1])[i] = DropPrefix(Codes(hist[k])[i], 2)
          /\ (k + 1) \in CleanseSteps /\ ~Has0000(Codes(hist[k])[i]) =>
                hist[k + 2].rows[i] = hist[k + 1].rows[i]
          /\ (k + 1) \in CleanseSteps /\ Has0000(Codes(hist[k])[i]) =>
                Codes(hist[k + 2])[i] = DropPrefix(Codes(hist[k])[i], 4)

\* Two cleansings of a table with a code '00..' that is not '0000..'.
C6_Witness ==
    /\ ops = <<"cleanse_hs", "cleanse_hs">>
    /\ \E i \in 1..Len(hist[1].rows) :
          /\ Has00(Codes(hist[1])[i]) /\ ~Has0000(Codes(hist[1])[i])
          /\ Codes(hist[2])[i] # Codes(hist[1])[i]
          /\ Codes(hist[3])[i] = Codes(hist[2])[i]

\* The HS code is a text of at least two characters whose first two are the
\* digits of a chapter in m..99.
ChapterInRange(hs, m) ==
    /\ hs # None /\ Len(hs) >= 2 /\ AllDigits(SubSeq(hs, 1, 2))
    /\ NumVal(SubSeq(hs, 1, 2)) >= m /\ NumVal(SubSeq(hs, 1, 2)) <= 99

KeptRows(t, m) == SelectSeq(t.rows, LAMBDA r : ChapterInRange(r["hs"], m))

\* C10 as stated: filter_by_chapter keeps a record iff its HS code has at least
\* two characters and its first two characters are a chapter of
\* min_chapter..99, in their order and unchanged.
C10_KeepIffChapterListed ==
    \A k \in FilterSteps : hist[k + 1].rows = KeptRows(hist[k], config.min_chapter)

\* C10 amended: that holds when the chapter list is not empty (min_chapter <=
\* 99); with an empty chapter list the filter is skipped and every record is
\* kept.
C10_KeepIffChapterListedOrSkipped ==
    \A k \in FilterSteps :
        IF config.min_chapter <= 99
        THEN hist[k + 1].rows = KeptRows(hist[k], config.min_chapter)
        ELSE hist[k + 1] = hist[k]

\* min_chapter = 25: of '0409000000' and '2501000001' the filter kept the second.
C10_Witness ==
    /\ config.min_chapter = 25 /\ Len(ops) >= 1 /\ ops[1] = "filter_by_chapter"
    /\ Codes(hist[1]) = << <<"0", "4", "0", "9", "0", "0", "0", "0", "0", "0">>,
                           <<"2", "5", "0", "1", "0", "0", "0", "0", "0", "1">> >>
    /\ Codes(hist[2]) = << <<"2", "5", "0", "1", "0", "0", "0", "0", "0", "1">> >>

----------------------------------------------------------------------------
(* Properties of build_descriptions *)

Ids == {nom_df[i].id : i \in {j \in 1..Len(nom_df) : nom_df[j].id # None}}

Rec(x) == nom_df[CHOOSE i \in 1..Len(nom_df) : nom_df[i].id = x]

RECURSIVE Ancestry(_, _)
\* The ids from the chapter down to x when the parent pointers of x reach a
\* level-10 record in at most k steps, and <<>> when they do not.
Ancestry(x, k) ==
    IF x \notin Ids THEN <<>>
    ELSE IF Rec(x).level_id = TENS THEN <<x>>
    ELSE IF k = 0 \/ Rec(x).parent_id = None THEN <<>>
    ELSE LET up == Ancestry(Rec(x).parent_id, k - 1)
         IN  IF up = <<>> THEN <<>> ELSE Append(up, x)

RECURSIVE Joined(_)
\* One sanitised description per id of the chain, joined by '---'.
Joined(chain) ==
    IF Len(chain) = 1 THEN replace_chars(Rec(chain[1]).official_description)
    ELSE Joined(SubSeq(chain, 1, Len(chain) - 1)) \o SEP
         \o replace_chars(Rec(chain[Len(chain)]).official_description)

\* C7: a record whose parent chain reaches a level-10 record in at most 20
\* steps gets the sanitised descriptions of all its ancestors, chapter first,
\* one segment per ancestor, joined by '---', whatever the segments are.
C7_FullDescriptionIsAncestorChain ==
    pc = "done" =>
        \A i \in 1..Len(nom_df) :
            nom_df[i].id # None /\ Ancestry(nom_df[i].id, MaxDepth) # <<>> =>
                full_descriptions[i] = Joined(Ancestry(nom_df[i].id, MaxDepth))

HasSemicolon(text) == \E i \in 1..Len(text) : text[i] = ";"

\* C8: after build_descriptions no full_description contains a semicolon.
C8_NoSemicolon ==
    pc = "done" => \A i \in 1..Len(full_descriptions) : ~HasSemicolon(full_descriptions[i])

\* A finished run on a table where a record without id has a semicolon in its
\* description and a record with a semicolon was joined to its parent's.
C8_Witness ==
    /\ pc = "done" /\ Len(full_descriptions) = Len(nom_df)
    /\ \E i, j \in 1..Len(nom_df) :
          /\ nom_df[i].id = None /\ HasSemicolon(nom_df[i].official_description)
          /\ nom_df[j].id # None /\ HasSemicolon(nom_df[j].official_description)
          /\ Len(full_descriptions[j]) > Len(nom_df[j].official_description)

\* C9: build_descriptions raises no error and terminates, for every table.
C9_TerminatesWithoutError == [](pc # "error") /\ <>(pc = "done")

\* A finished run on a table whose parent pointers form one cycle of more
\* than 20 records.
C9_Witness ==
    /\ pc = "done" /\ Len(nom_df) > MaxDepth /\ Len(full_descriptions) = Len(nom_df)
    /\ \A i \in 1..Len(nom_df) :
          nom_df[i].level_id # TENS /\ nom_df[i].parent_id \in Ids

\* The value get_full_desc returns for x when the cache is empty.
ResolvedAlone(x) ==
    get_full_desc(data_map, [y \in DOMAIN data_map |-> None], x, 0).val

\* C28: the full_description stored for each record equals the value
\* obtained by resolving that record alone with an empty cache.
C28_StoredEqualsResolvedAlone ==
    pc = "done" =>
        \A i \in 1..Len(nom_df) :
            nom_df[i].id # None /\ nom_df[i].id \in DOMAIN data_map =>
                full_descriptions[i] = ResolvedAlone(nom_df[i].id)

----------------------------------------------------------------------------
(* Properties of the configuration and the country-group filter *)

CompositeKey(r) == r["country_group"] \o <<" ">> \o r["duty_rate_type"]

Filtered == ~app_config.none /\ ~active_df.none

\* C11: filter_active_country_groups keeps a DTR record iff its composite key
\* country_group + ' ' + duty_rate_type is an entry of
\* config.active_country_group_list, for every Comment value.
C11_KeepsExactlyActiveKeys ==
    Filtered =>
        \A i \in 1..Len(dtr_df.rows) :
            (\E j \in 1..Len(active_df.rows) :
                 CompositeKey(active_df.rows[j]) = CompositeKey(dtr_df.rows[i]))
            <=> InList(CompositeKey(dtr_df.rows[i]), app_config.active_country_group_list)

\* The text before the first space, the whole text when it has no space.
BeforeSpace(s) ==
    IF \E i \in 1..Len(s) : s[i] = " "
    THEN SubSeq(s, 1, (CHOOSE i \in 1..Len(s) :
                          s[i] = " " /\ \A j \in 1..(i - 1) : s[j] # " ") - 1)
    ELSE s

\* The rows with a 'Descartes CG' whose Comment reads '3rd' in any letter case.
Marked3rd ==
    {i \in 1..Len(rate_type_df) :
        /\ rate_type_df[i].cg # None /\ rate_type_df[i].comment # None
        /\ Lower(rate_type_df[i].comment) = THIRD}

Prefixes3rd == {BeforeSpace(rate_type_df[i].cg) : i \in Marked3rd}

\* C12: main_country_group is 'Missing 3rd country group' iff no row is marked
\* '3rd', 'Multiple 3rd country group' iff the marked rows carry more than one
\* group prefix, and otherwise the one prefix of the marked rows.
C12_MainCountryGroup ==
    ~app_config.none =>
        /\ app_config.main_country_group = MISSING_3RD <=> Marked3rd = {}
        /\ app_config.main_country_group = MULTIPLE_3RD <=> Cardinality(Prefixes3rd) > 1
        /\ Cardinality(Prefixes3rd) = 1 => app_config.main_country_group \in Prefixes3rd

\* A loaded table with two rows marked '3rd' for different groups.
C12_Witness ==
    /\ ~app_config.none /\ Cardinality(Marked3rd) = 2 /\ Cardinality(Prefixes3rd) = 2
    /\ app_config.main_country_group = MULTIPLE_3RD

\* C26: when validate_config reports no missing country group, every
\* combination of country_group and duty_rate_type of the table is a
\* 'Descartes CG' of the rate-type table, and a record is dropped only when
\* a row with its key is marked 'remove'.
C26_ValidMeansEveryKeyListed ==
    Filtered /\ validate_config(dtr_df, app_config).is_valid =>
        \A i \in 1..Len(dtr_df.rows) :
            /\ \E j \in 1..Len(rate_type_df) :
                  rate_type_df[j].cg = CompositeKey(dtr_df.rows[i])
            /\ (\A k \in 1..Len(active_df.rows) :
                    CompositeKey(active_df.rows[k]) # CompositeKey(dtr_df.rows[i]))
               => \E j \in 1..Len(rate_type_df) :
                     /\ rate_type_df[j].cg = CompositeKey(dtr_df.rows[i])
                     /\ Contains(Lower(StrCell(rate_type_df[j].comment)), REMOVE)

----------------------------------------------------------------------------
(* Properties of the generators *)

Restricted == {"CAPDR", "MX6Digits", "ZZDE", "ZZDF"}

OwnCountry(g) ==
    CASE g = "CAPDR" -> "CA" [] g = "ZZDE" -> "CA"
      [] g = "MX6Digits" -> "MX" [] g = "ZZDF" -> "US" [] OTHER -> ""

\* A restricted generator ran for its own country.
RanForOwnCountry ==
    stage = "generate" /\ output.gen \in Restricted
    /\ exp_config.country = OwnCountry(output.gen)

SingleMainGroup == exp_config.main_country_group \notin {MISSING_3RD, MULTIPLE_3RD}

\* The rows of the output that stem from a DTR record.
DataRows == SelectSeq(output.rows, LAMBDA x : x.src # 0)

\* C13: a restricted generator run for its own country with main country
\* group G outputs data rows only for DTR records of group G, and a row for
\* every such record (MX6Digits: a row with the record's first 6 digits).
C13_RowsOfMainGroupOnly ==
    RanForOwnCountry /\ SingleMainGroup =>
        /\ \A k \in 1..Len(DataRows) :
              exp_dtr.rows[DataRows[k].src]["country_group"] = exp_config.main_country_group
        /\ \A i \in 1..Len(exp_dtr.rows) :
              exp_dtr.rows[i]["country_group"] = exp_config.main_country_group =>
                  \E k \in 1..Len(output.rows) :
                      IF output.gen = "MX6Digits"
                      THEN output.rows[k].hs = Prefix(exp_dtr.rows[i]["hs"], 6)
                      ELSE output.rows[k].src = i

\* C14: no row of a restricted output has the HS code '--', '0000000000', or
\* the 6-digit cut '000000' of it.
C14_NoPlaceholderRow ==
    stage = "generate" /\ output.gen \in Restricted =>
        \A k \in 1..Len(output.rows) :
            output.rows[k].hs \notin {DASHES, ZEROS, Prefix(ZEROS, 6)}

\* C15: with main_country_group one of the two sentinels, every restricted
\* generator returns an empty table and raises nothing.
C15_SentinelGivesEmptyTable ==
    stage = "generate" /\ output.gen \in Restricted /\ ~SingleMainGroup =>
        output.raised = "" /\ output.rows = <<>>

\* C16: every generator returns an empty table and raises nothing when the
\* DTR table is empty, when the NOM table next to a DTR table is empty, and
\* when the NOM table given to generate_export_hs is empty.
C16_EmptyInputGivesEmptyTable ==
    /\ stage = "generate" /\ output.gen \notin {"none", "ExportHS"}
          /\ (exp_dtr.rows = <<>> \/ exp_nom.rows = <<>>)
       => output.raised = "" /\ output.rows = <<>>
    /\ stage = "generate" /\ output.gen = "ExportHS" /\ exp_nom.rows = <<>>
       => output.raised = "" /\ output.rows = <<>>

\* The primary output of the tables and configuration at hand.
Primary == generate_zd14(exp_dtr, exp_nom, exp_config).rows

\* A row with its HS code cut to six characters.
Cut(x) == [x EXCEPT !.hs = Prefix(x.hs, 6)]

RanMx6 ==
    /\ stage = "generate" /\ output.gen = "MX6Digits"
    /\ exp_config.country = "MX" /\ output.raised = ""

\* C20: MX6Digits for MX has HS codes of at most 6 characters, each row is a
\* row of the primary output with its code cut to 6 characters, no code
\* appears twice, and the row kept for a code is the first in the order of
\* the primary output among the rows of its rate type with that code.
C20_SixDigitCodesOnceKeepFirst ==
    RanMx6 =>
        /\ \A k \in 1..Len(output.rows) : Len(output.rows[k].hs) <= 6
        /\ \A k, l \in 1..Len(output.rows) :
              k # l => output.rows[k].hs # output.rows[l].hs
        /\ \A k \in 1..Len(output.rows) : \E i \in 1..Len(Primary) :
              /\ output.rows[k] = Cut(Primary[i])
              /\ \A j \in 1..(i - 1) :
                    ~(/\ Primary[j].rate_type = Primary[i].rate_type
                      /\ Prefix(Primary[j].hs, 6) = output.rows[k].hs)

\* Two rows of the primary output with different codes of one rate type were
\* cut to the same six characters, and the first of them is in the output.
C20_Witness ==
    /\ RanMx6
    /\ \E k \in 1..Len(output.rows) : \E i, j \in 1..Len(Primary) :
          /\ i < j /\ output.rows[k] = Cut(Primary[i])
          /\ Primary[j].rate_type = Primary[i].rate_type
          /\ Primary[j].hs # Primary[i].hs
          /\ Len(Primary[i].hs) > 6
          /\ Prefix(Primary[j].hs, 6) = output.rows[k].hs

RanZz ==
    /\ stage = "generate" /\ output.gen \in {"ZZDE", "ZZDF"}
    /\ exp_config.country = OwnCountry(output.gen)
    /\ exp_dtr.rows # <<>>

\* C21: ZZDE and ZZDF on a DTR table of the ingestor (no multiplier column)
\* raise nothing, and the unit rate of every data row is the specific-rate
\* amount of its DTR record divided by 1.
C21_UnitRateWithoutError ==
    RanZz /\ "specificRate_multiplier" \notin exp_dtr.cols =>
        /\ output.raised = ""
        /\ \A k \in 1..Len(DataRows) :
              DataRows[k].rate_amount =
                  format_rate(exp_dtr.rows[DataRows[k].src]["specificRate_ratePerUOM"])

RanExportHs == stage = "generate" /\ output.gen = "ExportHS" /\ output.raised = ""

\* The level of the 8-digit records: 50 in the US nomenclature, 40 elsewhere.
LeafLevel == IF exp_config.country = "US" THEN <<"5", "0">> ELSE <<"4", "0">>

\* An active record of the leaf level with a code of exactly 8 digits.
ActiveLeaf8(r) ==
    /\ r["hs_flag"] = "01-active"
    /\ r["level_id"] = LeafLevel
    /\ r["number"] # None /\ Len(r["number"]) = 8 /\ IsInt(r["number"])

\* C22: every row of generate_export_hs comes from a record flagged
\* 01-active of the leaf level whose HS code has exactly 8 digits, and every
\* such record yields a row.
C22_ActiveEightDigitLeavesOnly ==
    RanExportHs =>
        /\ \A k \in 1..Len(output.rows) :
              /\ ActiveLeaf8(exp_nom.rows[output.rows[k].src])
              /\ output.rows[k].hs = exp_nom.rows[output.rows[k].src]["number"]
        /\ \A i \in 1..Len(exp_nom.rows) :
              ActiveLeaf8(exp_nom.rows[i]) => \E k \in 1..Len(output.rows) : output.rows[k].src = i

----------------------------------------------------------------------------
(* Properties of the import pipeline *)

\* The record passes the cut-off: there is none, or valid_from is not before it.
PassesCutOff(r) ==
    exp_config.zd14_date = None \/ StrGe(r["valid_from"], exp_config.zd14_date)

\* The places in the flagged DTR table of the active records that pass.
ActivePassing ==
    SelectSeq([i \in 1..Len(dtr_flagged.rows) |-> i], LAMBDA i :
        /\ dtr_flagged.rows[i]["hs_flag"] = "01-active"
        /\ PassesCutOff(dtr_flagged.rows[i]))

\* C17: when some DTR record is active, the primary output of the import
\* pipeline is the two placeholder rows and then exactly one row per active
\* DTR record that passes the zd14_date cut-off, in the order of the DTR
\* table, for every NOM table.
C17_OneRowPerActiveRecord ==
    stage = "done" /\ exp_dtr.rows # <<>> =>
        /\ output.raised = ""
        /\ Len(output.rows) = 2 + Len(ActivePassing)
        /\ output.rows[1].hs = DASHES /\ output.rows[2].hs = ZEROS
        /\ \A k \in 1..Len(ActivePassing) :
              /\ output.rows[k + 2].hs = dtr_flagged.rows[ActivePassing[k]]["hs"]
              /\ exp_dtr.rows[output.rows[k + 2].src] = dtr_flagged.rows[ActivePassing[k]]

----------------------------------------------------------------------------
(* Properties of the formatting functions *)

\* The eight digits of a calendar date, from the text as the XML writes it.
Ymd(d) == Without(d, "-")

\* YYYY-MM-DD or YYYYMMDD, of a year from 1000 on.
IsCalendarDate(d) ==
    /\ d # None
    /\ Len(Ymd(d)) = 8 /\ IsInt(Ymd(d)) /\ Ymd(d)[1] # "0"
    /\ Len(d) = 8 \/ (Len(d) = 10 /\ d[5] = "-" /\ d[8] = "-")

\* The later of two dates YYYYMMDD.
Later(a, b) == IF StrLt(a, b) THEN b ELSE a

NINES == <<"9", "9", "9", "9">>

\* C18: 'Date from' is the later of valid_from as YYYYMMDD and January 1st
\* of the configured year, and no 'Date from' that reads as a number is
\* earlier than <year>0101; 'Date to' is valid_to as YYYYMMDD, and a
\* valid_to of the year 9999 becomes 99991231.
C18_DateFromClampedDateToCapped ==
    /\ fmt_out.fn = "format_date_from" =>
          /\ IsCalendarDate(fmt_arg.date) =>
                fmt_out.text = Later(Ymd(fmt_arg.date), NatStr(fmt_arg.year_start_int))
          /\ IsInt(fmt_out.text) => NatOf(fmt_out.text) >= fmt_arg.year_start_int
    /\ fmt_out.fn = "format_date_to" /\ IsCalendarDate(fmt_arg.date) =>
          fmt_out.text = IF Prefix(fmt_arg.date, 4) = NINES
                         THEN NINES \o <<"1", "2", "3", "1">>
                         ELSE Ymd(fmt_arg.date)

\* 2024-01-01 under the year 2026 was clamped to 20260101, or a date of the
\* year 9999 other than its last day was capped.
C18_Witness ==
    \/ /\ fmt_out.fn = "format_date_from"
       /\ fmt_arg.date = D2024 /\ fmt_arg.year_start_int = NatOf(year_start([year |-> Y2026]))
       /\ fmt_out.text = Y2026 \o <<"0", "1", "0", "1">>
    \/ /\ fmt_out.fn = "format_date_to"
       /\ fmt_arg.date = IsoDate(9999, 1, 1)
       /\ fmt_out.text = NINES \o <<"1", "2", "3", "1">>

\* C19: format_rate gives a decimal text of the same value as its input,
\* and "0" for a missing, empty, non-numeric or zero input.
C19_RateKeepsItsValue ==
    fmt_out.fn = "format_rate" =>
        IF fmt_arg.rate # None /\ IsDecimal(fmt_arg.rate) /\ Milli(fmt_arg.rate) # 0
        THEN IsDecimal(fmt_out.text) /\ Milli(fmt_out.text) = Milli(fmt_arg.rate)
        ELSE fmt_out.text = <<"0">>

----------------------------------------------------------------------------
(* Properties of export_csv_split *)

\* A call on a table with rows and a budget of at least one row returned.
ReturnedSplit ==
    /\ csv_pc = "idle" /\ calls > 0
    /\ csv_df # NoTable /\ csv_df.rows # <<>> /\ max_rows >= 1

\* ceil(n / m)
CeilDiv(n, m) == (n + m - 1) \div m

\* C23: a call on n >= 1 rows with budget m >= 1 writes the files 1 ..
\* ceil(n/m) of its version and no other; every file but the last holds m
\* rows, the last the remainder; the chunks in index order are the rows of
\* the table in order; every file has the header of the table.
C23_ChunksPartitionTheTable ==
    ReturnedSplit =>
        LET n == Len(csv_df.rows)
            m == max_rows
            k == CeilDiv(n, m)
        IN  /\ exported_files = [j \in 1..k |-> <<version, j>>]
            /\ \A f \in DOMAIN files : f[1] = version => f[2] \in 1..k
            /\ \A j \in 1..k :
                  /\ files[<<version, j>>].header = csv_df.cols
                  /\ Len(files[<<version, j>>].rows) = IF j < k THEN m ELSE n - (k - 1) * m
                  /\ \A i \in 1..Len(files[<<version, j>>].rows) :
                        files[<<version, j>>].rows[i] = csv_df.rows[(j - 1) * m + i]

\* A table of m + 1 rows was written as two files.
C23_Witness ==
    /\ ReturnedSplit /\ Len(csv_df.rows) = max_rows + 1
    /\ Len(exported_files) = 2
    /\ Len(files[exported_files[2]].rows) = 1

\* C24: a call picks the smallest version v >= 1 whose first chunk does not
\* exist, a greater one than every call before, and no step changes a file
\* that an earlier call wrote.
C24_FreshIncreasingVersions ==
    [][/\ csv_pc = "idle" /\ csv_pc' = "loop" =>
              /\ version' >= 1 /\ version' > version
              /\ ~FirstChunkExists(files, version')
              /\ \A w \in 1..(version' - 1) : FirstChunkExists(files, w)
       /\ \A f \in DOMAIN files :
              /\ f \in DOMAIN files'
              /\ files[f].call < calls' => files'[f] = files[f]]_vars

\* Two calls wrote their files side by side, as versions 1 and 2.
C24_Witness ==
    /\ csv_pc = "idle" /\ calls = 2 /\ version = 2
    /\ FirstChunkExists(files, 1) /\ FirstChunkExists(files, 2)
    /\ files[<<1, 1>>].call = 1 /\ files[<<2, 1>>].call = 2

\* C29: on every iteration of the chunk loop the start row grows, and it
\* never passes the row count.
C29_StartRowGrows ==
    [][csv_pc = "loop" /\ file_idx' # file_idx =>
           start_row' > start_row /\ start_row' <= Len(csv_df.rows)]_vars

----------------------------------------------------------------------------
(* Properties of parse_xml_to_df *)

\* The file raised an exception in the loop body.
FailedToParse(f, doc) ==
    ~f.wellformed \/ \E k \in 1..Len(f.nodes) : NodeRaises(f.nodes[k], doc)

RECURSIVE AllRows(_)
\* The records of a batch of files, in file order.
AllRows(paths) ==
    IF paths = <<>> THEN <<>>
    ELSE AllRows(SubSeq(paths, 1, Len(paths) - 1))
             \o [k \in 1..Len(paths[Len(paths)].nodes) |-> paths[Len(paths)].nodes[k].row]

\* C25: the table returned for a batch is the records of the files that did
\* not fail, in file order: nothing of a failed file is in it.
C25_FailedFilesLeaveNothing ==
    all_data # NoTable =>
        all_data.rows = AllRows(SelectSeq(file_paths,
                                     LAMBDA f : ~FailedToParse(f, parse_doc_type)))

----------------------------------------------------------------------------
(* Properties of the export-direction pipeline *)

\* C27: every HS code of the Export HS output of the export-direction
\* pipeline has its first two characters in config.chapter_list.
C27_OutputChaptersListed ==
    stage = "exported" /\ output.raised = "" =>
        \A k \in 1..Len(output.rows) :
            is_valid_chapter(output.rows[k].hs, config.chapter_list)

----------------------------------------------------------------------------
(* The dates of the import pipeline's primary output *)

\* The record has two calendar dates, valid_from not after valid_to.
WellOrdered(r) ==
    /\ IsCalendarDate(r["valid_from"]) /\ IsCalendarDate(r["valid_to"])
    /\ ~StrLt(Ymd(r["valid_to"]), Ymd(r["valid_from"]))

\* C30: in the primary output of the import pipeline, every row built from a
\* DTR record with valid_from <= valid_to (both well-formed dates) has
\* 'Date from' <= 'Date to'.
C30_DateFromNotAfterDateTo ==
    stage = "done" /\ output.raised = "" =>
        \A k \in 1..Len(output.rows) :
            output.rows[k].src # 0 /\ WellOrdered(exp_dtr.rows[output.rows[k].src]) =>
                NatOf(output.rows[k].date_from) <= NatOf(output.rows[k].date_to)

\* The pipeline wrote a row whose valid_from was clamped to the start of the
\* year and whose valid_to ends in that year, and the flagged table held a
\* well-ordered record that expired before the year.
C30_Witness ==
    /\ stage = "done" /\ output.raised = ""
    /\ \E k \in 1..Len(output.rows) :
          /\ output.rows[k].src # 0
          /\ WellOrdered(exp_dtr.rows[output.rows[k].src])
          /\ output.rows[k].date_from = year_start(exp_config)
          /\ Ymd(exp_dtr.rows[output.rows[k].src]["valid_from"]) # output.rows[k].date_from
          /\ output.rows[k].date_to = Ymd(E2026)
    /\ \E i \in 1..Len(dtr_flagged.rows) :
          /\ WellOrdered(dtr_flagged.rows[i])
          /\ dtr_flagged.rows[i]["hs_flag"] = "02-invalid"

====
